---- MODULE Spec2Model ----
(***************************************************************************)
(* A model of the chunked PDF compression orchestrator of qr-pdf-compress: *)
(* the preset fallback chain, the error classifier, the job pass           *)
(* (count pages, per-chunk worker, merge) and the degradation loop.        *)
(*                                                                         *)
(* Granularity: the main thread is a JavaScript event loop.  One action is *)
(* one macrotask (the completion of a pdf-lib call, a worker message, a    *)
(* worker error event, a timer) together with every promise continuation   *)
(* that runs before the event loop is idle again.                          *)
(*                                                                         *)
(* The worker script and pdf-lib are the environment: a worker may post    *)
(* progress messages, a terminal message, raise a transport error, or stay *)
(* silent; pdf-lib calls succeed or throw.                                 *)
(*                                                                         *)
(* An error message is modelled by the set of classifier keywords it       *)
(* contains: String.includes(k) is membership.                             *)
(*                                                                         *)
(* Progress values are rationals num / den.  The variable events holds the *)
(* ProgressEvents the caller's callback received during the pass in        *)
(* progress, each tagged with the number of the pass that emitted it.      *)
(***************************************************************************)
EXTENDS Integers, Sequences, FiniteSets, TLC

(* ------------------------------ bounds --------------------------------- *)

\* Largest page count pdf-lib reports for the input document.
MaxPages == 2

\* Largest chunkSize option a caller passes (0 stands for "not given").
MaxChunkSizeOpt == 1

\* Planner specification: page counts and chunk sizes walked.
MaxPlanPages == 25

MaxPlanChunkSize == 10

\* Callers of loadWASM besides the compress() call that is followed.
NumCallers == 2

\* Exceptions nobody catches that the worker's global scope sees during one task.
MaxUncaughtErrors == 1

(* --------------------------- presets.ts -------------------------------- *)

Presets == {"lossless", "balanced", "max"}

Undefined == "undefined"

\* A fallback table that sends max straight to lossless.
getFallbackPresetSkipsBalanced(preset) ==
  CASE preset = "max" -> "lossless"
    [] preset = "balanced" -> "lossless"
    [] OTHER -> Undefined

getFallbackPreset(preset) ==
  CASE preset = "max" -> "balanced"
    [] preset = "balanced" -> "lossless"
    [] preset = "lossless" -> Undefined

RECURSIVE FallbackChainFrom(_, _)
FallbackChainFrom(chain, current) ==
  LET fallback == getFallbackPreset(current)
  IN IF fallback = Undefined THEN chain
     ELSE FallbackChainFrom(Append(chain, fallback), fallback)

\* A chain that tries the requested preset a second time before it gives up.
getPresetFallbackChainRetriesSame(preset) == <<preset, preset>>

getPresetFallbackChain(preset) == FallbackChainFrom(<<preset>>, preset)

\* The ordering of the presets from least to most aggressive.
Aggressiveness(preset) ==
  CASE preset = "lossless" -> 0
    [] preset = "balanced" -> 1
    [] preset = "max" -> 2

(* ------------------------- error-handler.ts ---------------------------- *)

ErrorTypes == {"INVALID_PDF", "OUT_OF_MEMORY", "WASM_LOAD_FAILED", "WORKER_ERROR",
               "TIMEOUT", "VALIDATION_FAILED", "UNKNOWN"}

classifyError(message) ==
  IF "invalid pdf" \in message \/ "not a valid pdf" \in message THEN "INVALID_PDF"
  ELSE IF "out of memory" \in message \/ "memory" \in message \/ "heap" \in message
    THEN "OUT_OF_MEMORY"
  ELSE IF "wasm" \in message \/ "webassembly" \in message THEN "WASM_LOAD_FAILED"
  ELSE IF "worker" \in message THEN "WORKER_ERROR"
  ELSE IF "timeout" \in message \/ "timed out" \in message THEN "TIMEOUT"
  ELSE IF "validation" \in message \/ "corrupt" \in message THEN "VALIDATION_FAILED"
  ELSE "UNKNOWN"

\* A verdict that gives up on errors of unknown kind.
isRecoverableErrorExceptUnknown(errorType) ==
  errorType \in {"OUT_OF_MEMORY", "TIMEOUT", "WORKER_ERROR"}

isRecoverableError(errorType) ==
  CASE errorType \in {"OUT_OF_MEMORY", "TIMEOUT", "WORKER_ERROR", "UNKNOWN"} -> TRUE
    [] errorType \in {"INVALID_PDF", "WASM_LOAD_FAILED", "VALIDATION_FAILED"} -> FALSE

\* handleErrorWithGracefulDegradation(error, currentPreset, gracefulDegradation,
\* onProgress).shouldRetry; its progress event is not part of the state.
handleErrorShouldRetry(message, currentPreset, gracefulDegradation) ==
  LET errorType == classifyError(message)
  IN IF ~isRecoverableError(errorType) \/ ~gracefulDegradation THEN FALSE
     ELSE getFallbackPreset(currentPreset) # Undefined

(* --------------------------- pdf-utils.ts ------------------------------ *)

PDF_MAGIC_BYTES == <<37, 80, 68, 70>>

isValidPDF(buffer) ==
  IF buffer.byteLength < 4 THEN FALSE
  ELSE \A index \in 1..4 : buffer.data[index] = PDF_MAGIC_BYTES[index]

\* Math.ceil(a / b) for integers a >= 0 and b > 0.
MathCeilDiv(a, b) == IF a % b = 0 THEN a \div b ELSE (a \div b) + 1

Min(a, b) == IF a < b THEN a ELSE b

FiveMiB == 5242880

\* avgPageSize > 5 MiB, with fileSizeBytes / 0 being Infinity.
AvgPageSizeAbove5MiB(totalPages, fileSizeBytes) ==
  IF totalPages = 0 THEN fileSizeBytes > 0
  ELSE \/ fileSizeBytes \div totalPages > FiveMiB
       \/ fileSizeBytes \div totalPages = FiveMiB /\ fileSizeBytes % totalPages # 0

\* A chunk size that is not reduced for documents of more than 500 pages.
calculateChunkSizeIgnoringPageCount(totalPages, fileSizeBytes, mobile) ==
  IF AvgPageSizeAbove5MiB(totalPages, fileSizeBytes) \/ mobile THEN Min(5, 10) ELSE 10

calculateChunkSize(totalPages, fileSizeBytes, mobile) ==
  IF AvgPageSizeAbove5MiB(totalPages, fileSizeBytes) \/ mobile THEN Min(5, 10)
  ELSE IF totalPages > 500 THEN Min(5, 10)
  ELSE 10


(* ----------------------------- buffers --------------------------------- *)

\* An ArrayBuffer: what it holds (tag, preset, data) and its byteLength.
\* tag "raw": data are the bytes; other tags: data are the page indices held.
InputBuffers ==
  { [tag |-> "raw", preset |-> "none", data |-> bytes, byteLength |-> Len(bytes)] :
      bytes \in { <<37, 80, 68, 70, 45>>, <<37, 80, 68>>, <<80, 75, 3, 4, 20>> } }

NoBuffer == [tag |-> "none", preset |-> "none", data |-> <<>>, byteLength |-> 0]

\* A postMessage that copies the buffer: the sender's buffer stays as it was.
Copied(buffer) == buffer

\* A buffer after it was put in a postMessage transfer list: byteLength reads 0.
Transferred(buffer) == [tag |-> "detached", preset |-> "none", data |-> <<>>, byteLength |-> 0]

\* Bytes pdf-lib writes per copied page (pdf-lib is external: any size > 0 will do).
PageBytes == 1

\* Byte lengths of the compressed chunks a worker returns (the engine is external).
CompressedByteLengths == {3}

\* extractPages(buffer, startPage, endPage) on a document of pageCount pages.
extractPages(pageCount, startPage, endPage) ==
  LET actualEndPage == Min(endPage, pageCount)
      length == IF actualEndPage > startPage THEN actualEndPage - startPage ELSE 0
  IN [tag |-> "pages", preset |-> "none",
      data |-> [k \in 1..length |-> startPage + (k - 1)],
      byteLength |-> Len(PDF_MAGIC_BYTES) + length * PageBytes]

RECURSIVE SumByteLength(_)
SumByteLength(chunks) ==
  IF chunks = <<>> THEN 0 ELSE Head(chunks).byteLength + SumByteLength(Tail(chunks))

\* A merge that copies the chunks last to first.
RECURSIVE ConcatDataReversed(_)
ConcatDataReversed(chunks) ==
  IF chunks = <<>> THEN <<>> ELSE ConcatDataReversed(Tail(chunks)) \o Head(chunks).data

\* The pages copied by the loop of mergePDFs, chunk after chunk.
RECURSIVE ConcatData(_)
ConcatData(chunks) ==
  IF chunks = <<>> THEN <<>> ELSE Head(chunks).data \o ConcatData(Tail(chunks))

MergedPreset(chunks) ==
  IF chunks = <<>> THEN "none"
  ELSE IF \A k \in DOMAIN chunks : chunks[k].preset = chunks[1].preset THEN chunks[1].preset
  ELSE "mixed"

\* mergePDFs(chunks): the pages of every chunk, chunk after chunk.
mergePDFs(chunks) ==
  [tag |-> "merged", preset |-> MergedPreset(chunks), data |-> ConcatData(chunks),
   byteLength |-> SumByteLength(chunks)]

\* pdfBuffer.slice(0): a new buffer holding the bytes 0..byteLength-1.
SliceCopy(buffer) ==
  [tag |-> buffer.tag, preset |-> buffer.preset,
   data |-> [k \in 1..buffer.byteLength |-> buffer.data[k]],
   byteLength |-> buffer.byteLength]

(* ------------------------------ errors --------------------------------- *)

\* Texts the environment (worker script, pdf-lib) reports, as keyword sets:
\* an out-of-memory text, an invalid-document text, a text with no keyword.
ErrorTexts == { {"out of memory", "memory"}, {"invalid pdf"}, {} }

NoError == [name |-> "none", message |-> {}, attemptedPreset |-> Undefined,
            originalSize |-> -1, phase |-> Undefined, hasCause |-> FALSE]

\* new Error(message)
PlainError(message) ==
  [name |-> "Error", message |-> message, attemptedPreset |-> Undefined,
   originalSize |-> -1, phase |-> Undefined, hasCause |-> FALSE]

\* new CompressionError(message, attemptedPreset, originalSize)
CompressionError(message, attemptedPreset, originalSize) ==
  [name |-> "CompressionError", message |-> message, attemptedPreset |-> attemptedPreset,
   originalSize |-> originalSize, phase |-> Undefined, hasCause |-> FALSE]

\* A timeout text that names the worker: `Worker for chunk ... timed out`.
TimeoutMessageNamesWorker == {"timed out", "worker"}

\* `Chunk ${chunkIndex} compression timed out after ${timeout}ms`
TimeoutMessage == {"timed out"}

\* `Worker error: ${error.message}` and `Merge worker error: ${error.message}`
WorkerErrorMessage(text) == {"worker"} \cup text

\* `Failed to count pages: ...`, `Failed to extract pages ...`, `Failed to merge PDFs: ...`
PdfLibFailureMessage(text) == text


(* ------------------------------- state --------------------------------- *)

VARIABLES
  opts,              \* CompressionOptions as orchestrateCompression receives them
  isMobile,          \* navigator.userAgent names a mobile device
  pdfBuffer,         \* the caller's input ArrayBuffer
  docPages,          \* the page count pdf-lib reports for pdfBuffer
  pc,                \* where the orchestrator is suspended
  presetChain,       \* orchestrateCompression: presetChain
  chainIdx,          \* position of the for-of loop in presetChain (1-based)
  lastError,         \* orchestrateCompression: lastError
  totalPages,        \* compressWithPreset locals
  chunkSize,
  numChunks,
  i,
  chunkPdf,
  compressedChunks,
  chunkStats,
  ranges,            \* [startPage, endPage) of the iterations begun in this pass
  workers,           \* every Worker created so far, in creation order
  progress,          \* compressWithPreset: the ProgressTracker of the pass
  chunkDurations,    \* history: how long each chunk completed in this pass took
  events,            \* the ProgressEvents options.onProgress received during the
                     \* current pass, after the last one of the pass before
  mergeReports,      \* progress messages the merge worker in use has posted so far
  failedPasses,      \* history: how many times the catch block of the loop ran
  result,            \* the promise orchestrateCompression returned
  options,           \* compress(): the options argument, as the caller passed it
  goInstance,        \* loader.ts: TRUE when goInstance holds a Go runtime, FALSE for null
  isLoading,         \* loader.ts
  loadPromise,       \* loader.ts: the number of the load it points to, 0 for null
  isReady,           \* loader.ts
  loads,             \* how far each engine load started by loadWASM has come
  callers,           \* what each caller of loadWASM waits for; caller 0 is compress()
  script,            \* compression.worker.ts: where handleCompressChunk stands
  posted,            \* history: the messages the worker script has posted, in order
  delivered,         \* how many of them worker.onmessage of compressChunk has handled
  uncaught           \* history: error events raised in the worker's global scope

vars == <<opts, isMobile, pdfBuffer, docPages, pc, presetChain, chainIdx, lastError,
          totalPages, chunkSize, numChunks, i, chunkPdf, compressedChunks, chunkStats,
          ranges, workers, progress, chunkDurations, events, mergeReports, failedPasses,
          result, options, goInstance, isLoading, loadPromise, isReady, loads, callers,
          script, posted, delivered, uncaught>>

\* The module state of loader.ts and its callers.
loaderVars == <<goInstance, isLoading, loadPromise, isReady, loads, callers>>

\* The worker script of a chunk and its channel to compressChunk.
scriptVars == <<script, posted, delivered, uncaught>>

\* The arguments of the job.
jobInputs == <<opts, isMobile, pdfBuffer, docPages>>

\* What orchestrateCompression and its callbacks never assign: the arguments of the
\* job, the arguments of compress(), the engine loader of the main thread and the
\* inside of the worker script.
inputVars == <<jobInputs, options, loaderVars, scriptVars>>

loopVars == <<totalPages, chunkSize, numChunks, i, chunkPdf, compressedChunks,
              chunkStats, ranges, progress, chunkDurations>>

passVars == <<loopVars, mergeReports>>

(* ---------------------- error-handler.ts: ProgressTracker -------------- *)

\* A progress value: the number num / den, den > 0.
Rat(num, den) == [num |-> num, den |-> den]

RatLeq(a, b) == a.num * b.den <= b.num * a.den

RatMin(a, b) == IF RatLeq(a, b) THEN a ELSE b

\* An optional field of an event: <<>> when it is absent or undefined.
Absent == <<>>

\* A ProgressEvent as the caller's onProgress receives it; pass is the number of the
\* job pass it was emitted in (0: before the first pass).
ProgressEvent(phase, value, currentChunk, totalChunksField, eta, message, pass) ==
  [phase |-> phase, progress |-> value, currentChunk |-> currentChunk,
   totalChunks |-> totalChunksField, estimatedTimeRemaining |-> eta,
   message |-> message, pass |-> pass]

\* new ProgressTracker(options.onProgress), created by pass number pass.
NewProgressTracker(pass) ==
  [totalChunks |-> 0, completedChunks |-> 0, currentPhase |-> "chunking",
   chunkTimes |-> <<>>, pass |-> pass]

\* A tracker together with the events emitted so far.
Tracking(t, log) == [t |-> t, log |-> log]

\* A tracker whose compressing phase runs from 10 to 100.
calculateProgressCompressingTo100(t) ==
  IF t.totalChunks = 0 THEN Rat(0, 1)
  ELSE CASE t.currentPhase = "chunking" -> Rat(5, 1)
         [] t.currentPhase = "compressing" ->
              Rat(10 * t.totalChunks + 90 * t.completedChunks, t.totalChunks)
         [] t.currentPhase = "merging" -> Rat(95, 1)
         [] t.currentPhase = "error-recovery" ->
              Rat(90 * t.completedChunks, t.totalChunks)
         [] OTHER -> Rat(0, 1)

calculateProgress(t) ==
  IF t.totalChunks = 0 THEN Rat(0, 1)
  ELSE CASE t.currentPhase = "chunking" -> Rat(5, 1)
         [] t.currentPhase = "compressing" ->
              Rat(10 * t.totalChunks + 80 * t.completedChunks, t.totalChunks)
         [] t.currentPhase = "merging" -> Rat(95, 1)
         [] t.currentPhase = "error-recovery" ->
              Rat(90 * t.completedChunks, t.totalChunks)
         [] OTHER -> Rat(0, 1)

RECURSIVE SumTimes(_)
SumTimes(times) == IF times = <<>> THEN 0 ELSE Head(times) + SumTimes(Tail(times))

\* Math.ceil(avgChunkTime * remainingChunks), or undefined.
EtaOf(times, remainingChunks) ==
  <<MathCeilDiv(SumTimes(times) * remainingChunks, Len(times))>>

estimateTimeRemaining(t) ==
  IF Len(t.chunkTimes) = 0 \/ t.completedChunks >= t.totalChunks THEN Absent
  ELSE EtaOf(t.chunkTimes, t.totalChunks - t.completedChunks)

\* private emit(event): only a tracker that was given a callback emits.
emit(p, event) ==
  IF opts.onProgress THEN Tracking(p.t, Append(p.log, event)) ELSE p

emitProgress(p) ==
  emit(p, ProgressEvent(p.t.currentPhase, calculateProgress(p.t),
                        <<p.t.completedChunks + 1>>, <<p.t.totalChunks>>,
                        estimateTimeRemaining(p.t), Absent, p.t.pass))

setTotalChunks(p, total) == Tracking([p.t EXCEPT !.totalChunks = total], p.log)

setPhase(p, phase) == emitProgress(Tracking([p.t EXCEPT !.currentPhase = phase], p.log))

reportChunkingProgress(p, percent) ==
  emit(Tracking([p.t EXCEPT !.currentPhase = "chunking"], p.log),
       ProgressEvent("chunking", Rat(percent, 1), Absent, Absent, Absent, Absent, p.t.pass))

startChunk(p, chunkIndex) ==
  LET q == Tracking([p.t EXCEPT !.currentPhase = "compressing"], p.log)
  IN emit(q, ProgressEvent("compressing", calculateProgress(q.t), <<chunkIndex + 1>>,
                           <<q.t.totalChunks>>, Absent, Absent, q.t.pass))

\* A completeChunk that counts the chunk twice.
completeChunkCountsTwice(p, chunkIndex, processingTime) ==
  LET q == Tracking([p.t EXCEPT !.completedChunks = @ + 2,
                                !.chunkTimes = Append(@, processingTime)], p.log)
  IN emit(q, ProgressEvent("compressing", calculateProgress(q.t), <<chunkIndex + 1>>,
                           <<q.t.totalChunks>>, estimateTimeRemaining(q.t), Absent,
                           q.t.pass))

completeChunk(p, chunkIndex, processingTime) ==
  LET q == Tracking([p.t EXCEPT !.completedChunks = @ + 1,
                                !.chunkTimes = Append(@, processingTime)], p.log)
  IN emit(q, ProgressEvent("compressing", calculateProgress(q.t), <<chunkIndex + 1>>,
                           <<q.t.totalChunks>>, estimateTimeRemaining(q.t), Absent,
                           q.t.pass))

\* Math.min(95, 90 + progress * 0.1)
reportMergingProgress(p, percent) ==
  emit(Tracking([p.t EXCEPT !.currentPhase = "merging"], p.log),
       ProgressEvent("merging", RatMin(Rat(95, 1), Rat(900 + percent, 10)),
                     Absent, Absent, Absent, Absent, p.t.pass))

reportComplete(p) ==
  emit(p, ProgressEvent("merging", Rat(100, 1), Absent, Absent, Absent, Absent, p.t.pass))

\* The percentages the merge worker posts, in the order handleMergeChunks posts them.
MergeProgressReports == <<10, 30, 90, 100>>

\* How long a chunk takes in its worker, in milliseconds (the engine is external).
ChunkDurations == {7}

(* --------------------------- job state --------------------------------- *)

\* `warning: undefined`; a warning text is a tuple of its parts.
NoWarning == <<>>

NoStats == [originalSize |-> 0, compressedSize |-> 0, ratio |-> [num |-> 0, den |-> 0],
            bytesSaved |-> 0, presetUsed |-> Undefined, chunksProcessed |-> 0]

\* compress(): the event emitted before the engine is loaded.
InitialEvent ==
  ProgressEvent("chunking", Rat(0, 1), Absent, Absent, Absent,
                <<"Initializing compression engine...">>, 0)

Pending == [state |-> "pending", pdf |-> NoBuffer, stats |-> NoStats,
            warning |-> NoWarning, error |-> NoError]

\* `loadPromise = null`
NoPromise == 0

\* A caller of loadWASM that has not called yet.
Idle == [status |-> "idle", load |-> NoPromise]

\* A caller whose `await loadWASM()` is suspended on load k.
AwaitingLoad(k) == [status |-> "awaiting", load |-> k]

\* A caller whose `await loadWASM()` completed (returned) or threw (threw).
Resumed(status, k) == [status |-> status, load |-> k]

\* Callers of loadWASM besides the compress() call: other compress() calls and
\* preloading code of the page.
OtherCallers == 1..NumCallers

\* An options argument that spells out every option of o.
ExplicitOptions(o) ==
  [preset |-> <<o.preset>>, gracefulDegradation |-> <<o.gracefulDegradation>>,
   onProgress |-> o.onProgress,
   chunkSize |-> IF o.chunkSize = 0 THEN Absent ELSE <<o.chunkSize>>,
   mergeStrategy |-> <<o.mergeStrategy>>]

\* compress() 46-58: fullOptions. An option that is absent, and a preset or merge
\* strategy that is the empty string, take the default.
FullOptions(o) ==
  [preset |-> IF o.preset = Absent \/ o.preset = <<"">> THEN "balanced" ELSE o.preset[1],
   gracefulDegradation |-> o.gracefulDegradation # <<FALSE>>,
   onProgress |-> o.onProgress,
   chunkSize |-> IF o.chunkSize = Absent THEN 0 ELSE o.chunkSize[1],
   mergeStrategy |-> IF o.mergeStrategy = Absent THEN "worker" ELSE o.mergeStrategy[1]]

\* The loader once compress() has awaited loadWASM: the engine is loaded and ready.
EngineReady ==
  /\ goInstance = TRUE
  /\ isLoading = FALSE
  /\ loadPromise = 1
  /\ isReady = TRUE
  /\ loads = <<"resolved">>
  /\ callers = [c \in {0} \cup OtherCallers |->
                  IF c = 0 THEN Resumed("returned", 1) ELSE Idle]

\* No chunk worker has been given a task.
ScriptIdle ==
  /\ script = "idle"
  /\ posted = <<>>
  /\ delivered = 0
  /\ uncaught = 0

Init ==
  /\ opts \in [preset : Presets, gracefulDegradation : BOOLEAN, onProgress : BOOLEAN,
               chunkSize : 0..MaxChunkSizeOpt, mergeStrategy : {"worker", "main"}]
  /\ isMobile \in (IF opts.chunkSize = 0 THEN BOOLEAN ELSE {FALSE})
  /\ pdfBuffer \in InputBuffers
  /\ docPages \in 0..MaxPages
  /\ pc = "start"
  /\ presetChain = <<>>
  /\ chainIdx = 0
  /\ lastError = NoError
  /\ totalPages = 0
  /\ chunkSize = 0
  /\ numChunks = 0
  /\ i = 0
  /\ chunkPdf = NoBuffer
  /\ compressedChunks = <<>>
  /\ chunkStats = <<>>
  /\ ranges = <<>>
  /\ workers = <<>>
  /\ progress = NewProgressTracker(0)
  /\ chunkDurations = <<>>
  /\ events = IF opts.onProgress THEN <<InitialEvent>> ELSE <<>>
  /\ mergeReports = 0
  /\ failedPasses = 0
  /\ result = Pending
  /\ options = ExplicitOptions(opts)
  /\ EngineReady
  /\ ScriptIdle

\* The preset of the pass in progress: `preset` of the for-of loop.
CurrentPreset == presetChain[chainIdx]

(* ------------------------ orchestrateCompression ----------------------- *)

\* compressWithPreset, `new ProgressTracker(...)` and `progress.setPhase('chunking')`:
\* the tracker of pass idx and the events emitted, log being those emitted before.
PassEntry(idx, log) == setPhase(Tracking(NewProgressTracker(idx), log), "chunking")

\* A retry that keeps the chunks the failed pass had already compressed.
StartPassKeepsChunks(idx) ==
  /\ chainIdx' = idx
  /\ pc' = "countPages"
  /\ totalPages' = 0
  /\ chunkSize' = 0
  /\ numChunks' = 0
  /\ i' = 0
  /\ chunkPdf' = NoBuffer
  /\ ranges' = <<>>
  /\ progress' = PassEntry(idx, events).t
  /\ chunkDurations' = <<>>
  /\ mergeReports' = 0
  /\ UNCHANGED <<compressedChunks, chunkStats>>

\* compressWithPreset up to its first suspension, `await countPages(pdfBuffer)`:
\* a fresh set of locals (the caller appends the event of PassEntry to events).
StartPass(idx) ==
  /\ chainIdx' = idx
  /\ pc' = "countPages"
  /\ totalPages' = 0
  /\ chunkSize' = 0
  /\ numChunks' = 0
  /\ i' = 0
  /\ chunkPdf' = NoBuffer
  /\ compressedChunks' = <<>>
  /\ chunkStats' = <<>>
  /\ ranges' = <<>>
  /\ progress' = PassEntry(idx, events).t
  /\ chunkDurations' = <<>>
  /\ mergeReports' = 0

\* `Original preset '${options.preset}' failed, used '${preset}' instead.`
FallbackWarning(requested, used) == <<"Original preset", requested, "failed, used", used>>

FailureWarning == <<"Compression failed. Returning original PDF.">>

\* A fallback that reads the input after it was handed to a worker.
FallbackResultOfTransferredInput ==
  [state |-> "resolved",
   pdf |-> SliceCopy(Transferred(pdfBuffer)),
   stats |-> [originalSize |-> pdfBuffer.byteLength,
              compressedSize |-> Transferred(pdfBuffer).byteLength,
              ratio |-> [num |-> 1, den |-> 1], bytesSaved |-> 0,
              presetUsed |-> opts.preset, chunksProcessed |-> 0],
   warning |-> FailureWarning,
   error |-> NoError]

\* A fallback that returns what the failed pass had compressed so far.
FallbackResultMergesPartial ==
  [state |-> "resolved",
   pdf |-> mergePDFs(compressedChunks),
   stats |-> [originalSize |-> pdfBuffer.byteLength,
              compressedSize |-> mergePDFs(compressedChunks).byteLength,
              ratio |-> [num |-> 1, den |-> 1], bytesSaved |-> 0,
              presetUsed |-> opts.preset, chunksProcessed |-> 0],
   warning |-> FailureWarning,
   error |-> NoError]

\* The result returned after the loop when gracefulDegradation !== false.
FallbackResult ==
  [state |-> "resolved",
   pdf |-> SliceCopy(pdfBuffer),
   stats |-> [originalSize |-> pdfBuffer.byteLength, compressedSize |-> pdfBuffer.byteLength,
              ratio |-> [num |-> 1, den |-> 1], bytesSaved |-> 0,
              presetUsed |-> opts.preset, chunksProcessed |-> 0],
   warning |-> FailureWarning,
   error |-> NoError]

\* `throw lastError || new CompressionError(...)`: lastError is set on every path here.
Rejection(error) ==
  [state |-> "rejected", pdf |-> NoBuffer, stats |-> NoStats, warning |-> NoWarning,
   error |-> error]

\* The window of events kept when a pass is given up for the next one.
Latest(log) == IF log = <<>> THEN <<>> ELSE <<log[Len(log)]>>

\* The events after handleErrorWithGracefulDegradation(error, currentPreset,
\* gracefulDegradation, onProgress) ran with a callback: its error-recovery event.
handleErrorEvents(log, message, currentPreset, gracefulDegradation, pass) ==
  IF handleErrorShouldRetry(message, currentPreset, gracefulDegradation)
  THEN Append(log, ProgressEvent("error-recovery", Rat(0, 1), Absent, Absent, Absent,
                                 <<currentPreset, "compression failed",
                                   classifyError(message), "Trying",
                                   getFallbackPreset(currentPreset), "preset...">>, pass))
  ELSE log

\* The event emitted before the original PDF is returned.
AllFailedEvent(pass) ==
  ProgressEvent("error-recovery", Rat(100, 1), Absent, Absent, Absent,
                <<"All compression attempts failed. Returning original PDF.">>, pass)

\* The catch block of the for-of loop and what follows it, for an error thrown by
\* the pass under CurrentPreset, with ws the workers after the throwing handler.
PassFailed(error, ws) ==
  LET preset == CurrentPreset
      isLast == preset = presetChain[Len(presetChain)]
      retry == /\ ~isLast
               /\ opts.onProgress => handleErrorShouldRetry(error.message, preset, TRUE)
      recovery == IF ~isLast /\ opts.onProgress
                  THEN handleErrorEvents(<<>>, error.message, preset, TRUE, chainIdx)
                  ELSE <<>>
  IN /\ lastError' = error
     /\ failedPasses' = failedPasses + 1
     /\ workers' = ws
     /\ IF retry
        THEN /\ StartPass(chainIdx + 1)
             /\ events' = PassEntry(chainIdx + 1, Latest(events) \o recovery).log
             /\ result' = result
        ELSE /\ pc' = "done"
             /\ result' = IF opts.gracefulDegradation THEN FallbackResult
                          ELSE Rejection(error)
             /\ events' = IF opts.gracefulDegradation /\ opts.onProgress
                          THEN Append(events \o recovery, AllFailedEvent(chainIdx))
                          ELSE events \o recovery
             /\ mergeReports' = 0
             /\ UNCHANGED <<chainIdx, loopVars>>
     /\ UNCHANGED <<inputVars, presetChain>>

\* orchestrateCompression from its entry to the first suspension.
OrchestrateStart ==
  /\ pc = "start"
  /\ IF ~isValidPDF(pdfBuffer)
     THEN /\ pc' = "done"
          /\ result' = Rejection(CompressionError({"invalid pdf"}, opts.preset,
                                                  pdfBuffer.byteLength))
          /\ UNCHANGED <<presetChain, chainIdx, passVars, events>>
     ELSE /\ presetChain' = IF opts.gracefulDegradation
                            THEN getPresetFallbackChain(opts.preset)
                            ELSE <<opts.preset>>
          /\ StartPass(1)
          /\ events' = PassEntry(1, events).log
          /\ result' = result
  /\ UNCHANGED <<inputVars, lastError, workers, failedPasses>>


(* -------------------------- compressWithPreset ------------------------- *)

\* A pass result that names the requested preset and never warns.
PassResultAsRequested(mergedPdf, stats, count) ==
  [state |-> "resolved",
   pdf |-> mergedPdf,
   stats |-> [originalSize |-> 0, compressedSize |-> mergedPdf.byteLength,
              ratio |-> [num |-> 0, den |-> 0], bytesSaved |-> 0,
              presetUsed |-> opts.preset, chunksProcessed |-> count],
   warning |-> NoWarning,
   error |-> NoError]

\* A pass result that reports a compressed size of 0, whatever the artifact holds.
PassResultSizeOfInput(mergedPdf, stats, count) ==
  [state |-> "resolved",
   pdf |-> mergedPdf,
   stats |-> [originalSize |-> 0, compressedSize |-> 0,
              ratio |-> [num |-> 0, den |-> 0], bytesSaved |-> 0 - mergedPdf.byteLength,
              presetUsed |-> CurrentPreset, chunksProcessed |-> count],
   warning |-> IF CurrentPreset # opts.preset
               THEN FallbackWarning(opts.preset, CurrentPreset)
               ELSE NoWarning,
   error |-> NoError]

\* The result of a pass that produced mergedPdf, as compressWithPreset computes its
\* stats and orchestrateCompression completes them.
PassResult(mergedPdf, stats, count) ==
  LET RECURSIVE SumOriginal(_)
      SumOriginal(s) == IF s = <<>> THEN 0 ELSE Head(s).originalSize + SumOriginal(Tail(s))
      totalOriginalSize == SumOriginal(stats)
      totalCompressedSize == mergedPdf.byteLength
  IN [state |-> "resolved",
      pdf |-> mergedPdf,
      stats |-> [originalSize |-> totalOriginalSize,
                 compressedSize |-> totalCompressedSize,
                 ratio |-> [num |-> totalCompressedSize, den |-> totalOriginalSize],
                 bytesSaved |-> totalOriginalSize - totalCompressedSize,
                 presetUsed |-> CurrentPreset,
                 chunksProcessed |-> count],
      warning |-> IF CurrentPreset # opts.preset
                  THEN FallbackWarning(opts.preset, CurrentPreset)
                  ELSE NoWarning,
      error |-> NoError]

\* A chunk worker that is sent the caller's whole buffer.
ChunkWorkerGivenInput(chunkIndex, input) ==
  [kind |-> "chunk", chunkIndex |-> chunkIndex, preset |-> CurrentPreset,
   input |-> <<pdfBuffer>>, alive |-> TRUE, terminateCalls |-> 0, timer |-> TRUE,
   promise |-> "pending"]

\* new Worker(workerUrl) in compressChunk, after postMessage and setTimeout.
ChunkWorker(chunkIndex, input) ==
  [kind |-> "chunk", chunkIndex |-> chunkIndex, preset |-> CurrentPreset,
   input |-> <<input>>, alive |-> TRUE, terminateCalls |-> 0, timer |-> TRUE,
   promise |-> "pending"]

\* new Worker(workerUrl) in mergeChunks, after postMessage: no timer is set.
MergeWorker(chunks) ==
  [kind |-> "merge", chunkIndex |-> -1, preset |-> CurrentPreset,
   input |-> chunks, alive |-> TRUE, terminateCalls |-> 0, timer |-> FALSE,
   promise |-> "pending"]

\* A range whose end is not clipped to the page count.
ChunkRangeUnclipped(k, size, total) ==
  [startPage |-> k * size, endPage |-> (k + 1) * size]

\* startPage and endPage of loop iteration k.
ChunkRange(k, size, total) ==
  [startPage |-> k * size, endPage |-> Min((k + 1) * size, total)]

\* One loop iteration up to `await extractPages(pdfBuffer, startPage, endPage)`.
BeginIteration(k, size, total) ==
  /\ i' = k
  /\ pc' = "extractPages"
  /\ ranges' = Append(ranges, ChunkRange(k, size, total))

\* From `progress.setPhase('merging')` to the end of the pass or the next suspension.
\* A merge step that has no shortcut for a single chunk.
EnterMergeWithoutPassThrough(chunks, stats, ws, count, p) ==
  LET merging == setPhase(p, "merging")
  IN /\ progress' = merging.t
     /\ events' = merging.log
     /\ result' = result
     /\ IF opts.mergeStrategy = "main"
        THEN /\ pc' = "mergeMain"
             /\ compressedChunks' = chunks
             /\ workers' = ws
        ELSE /\ pc' = "awaitMerge"
             /\ compressedChunks' = [k \in DOMAIN chunks |-> Transferred(chunks[k])]
             /\ workers' = Append(ws, MergeWorker(chunks))

\* p is the tracker and the events as the loop left them.
EnterMerge(chunks, stats, ws, count, p) ==
  LET merging == setPhase(p, "merging")
      complete == reportComplete(merging)
  IN IF opts.mergeStrategy = "main" \/ Len(chunks) = 1
     THEN IF Len(chunks) = 1
          THEN /\ pc' = "done"
               /\ result' = PassResult(chunks[1], stats, count)
               /\ compressedChunks' = chunks
               /\ workers' = ws
               /\ progress' = complete.t
               /\ events' = complete.log
          ELSE /\ pc' = "mergeMain"
               /\ result' = result
               /\ compressedChunks' = chunks
               /\ workers' = ws
               /\ progress' = merging.t
               /\ events' = merging.log
     ELSE /\ pc' = "awaitMerge"
          /\ result' = result
          /\ compressedChunks' = [k \in DOMAIN chunks |->
                                    IF chunks[k].byteLength > 0 THEN Transferred(chunks[k])
                                    ELSE chunks[k]]
          /\ workers' = Append(ws, MergeWorker(chunks))
          /\ progress' = merging.t
          /\ events' = merging.log

\* countPages resolved: chunk size, chunk count, then the loop or the merge.
CountPagesDone ==
  /\ pc = "countPages"
  /\ LET size == IF opts.chunkSize # 0 THEN opts.chunkSize
                 ELSE calculateChunkSize(docPages, pdfBuffer.byteLength, isMobile)
         count == MathCeilDiv(docPages, size)
         chunked == reportChunkingProgress(
                      reportChunkingProgress(
                        setTotalChunks(Tracking(progress, events), count), 50), 100)
     IN /\ totalPages' = docPages
        /\ chunkSize' = size
        /\ numChunks' = count
        /\ IF 0 < count
           THEN /\ BeginIteration(0, size, docPages)
                /\ progress' = chunked.t
                /\ events' = chunked.log
                /\ UNCHANGED <<compressedChunks, workers, result>>
           ELSE /\ EnterMerge(compressedChunks, chunkStats, workers, count, chunked)
                /\ UNCHANGED <<i, ranges>>
  /\ UNCHANGED <<inputVars, presetChain, chainIdx, lastError, chunkPdf, chunkStats,
                 chunkDurations, mergeReports, failedPasses>>

\* countPages threw `Failed to count pages: ...`.
CountPagesFailed ==
  /\ pc = "countPages"
  /\ \E text \in ErrorTexts :
       PassFailed(PlainError(PdfLibFailureMessage(text)), workers)

\* extractPages resolved: startChunk, then compressChunk creates the worker, posts
\* the task transferring chunkPdf, arms the timer; the pass awaits the chunk promise.
ExtractPagesDone ==
  /\ pc = "extractPages"
  /\ LET extracted == extractPages(docPages, ranges[i + 1].startPage, ranges[i + 1].endPage)
         started == startChunk(Tracking(progress, events), i)
     IN /\ workers' = Append(workers, ChunkWorker(i, extracted))
        /\ chunkPdf' = Transferred(extracted)
        /\ progress' = started.t
        /\ events' = started.log
  /\ pc' = "awaitChunk"
  /\ UNCHANGED <<inputVars, presetChain, chainIdx, lastError, totalPages, chunkSize,
                 numChunks, i, compressedChunks, chunkStats, ranges, chunkDurations,
                 mergeReports, failedPasses, result>>

\* extractPages threw `Failed to extract pages ...`.
ExtractPagesFailed ==
  /\ pc = "extractPages"
  /\ \E text \in ErrorTexts :
       PassFailed(PlainError(PdfLibFailureMessage(text)), workers)

\* The continuation of `await compressChunk(...)` once it resolved with compressed
\* (the caller records how long the chunk took).
AfterChunk(compressed, ws) ==
  LET stats == Append(chunkStats, [originalSize |-> chunkPdf.byteLength,
                                   compressedSize |-> compressed.byteLength])
      chunks == Append(compressedChunks, compressed)
      completed == completeChunk(Tracking(progress, events), i, compressed.byteLength)
  IN /\ chunkStats' = stats
     /\ IF i + 1 < numChunks
        THEN /\ BeginIteration(i + 1, chunkSize, totalPages)
             /\ compressedChunks' = chunks
             /\ workers' = ws
             /\ result' = result
             /\ progress' = completed.t
             /\ events' = completed.log
        ELSE /\ EnterMerge(chunks, stats, ws, numChunks, completed)
             /\ i' = i + 1
             /\ ranges' = ranges
     /\ UNCHANGED <<inputVars, presetChain, chainIdx, lastError, totalPages, chunkSize,
                    numChunks, chunkPdf, mergeReports, failedPasses>>


(* ----------------------- compressChunk: the handlers ------------------- *)

\* A teardown that leaves the worker running.
terminateWorkerNot(ws, w) == ws

\* terminateWorker(worker), with URL.revokeObjectURL(workerUrl) after it.
terminateWorker(ws, w) ==
  [ws EXCEPT ![w].alive = FALSE, ![w].terminateCalls = @ + 1]

\* A promise that takes the outcome of every resolve or reject call.
SettleOverwrites(ws, w, state) == [ws EXCEPT ![w].promise = state]

\* resolve(...) or reject(...): only the first call settles the promise.
Settle(ws, w, state) ==
  IF ws[w].promise = "pending" THEN [ws EXCEPT ![w].promise = state] ELSE ws

\* The orchestrator is suspended on the promise of worker w.
Awaited(w) ==
  /\ w = Len(workers)
  /\ workers[w].promise = "pending"
  /\ \/ pc = "awaitChunk" /\ workers[w].kind = "chunk"
     \/ pc = "awaitMerge" /\ workers[w].kind = "merge"

\* A worker delivers events only until terminate() discards its message queue.
Delivers(w, kind) ==
  /\ w \in DOMAIN workers
  /\ workers[w].kind = kind
  /\ workers[w].alive

\* worker.onmessage, message.type === 'chunk-complete'
OnChunkComplete(w) ==
  /\ Delivers(w, "chunk")
  /\ \E size \in CompressedByteLengths, duration \in ChunkDurations :
       LET compressedPdf == [tag |-> "compressed", preset |-> workers[w].preset,
                             data |-> workers[w].input[1].data, byteLength |-> size]
           ws == Settle(terminateWorker(workers, w), w, "resolved")
       IN IF Awaited(w)
          THEN /\ AfterChunk(compressedPdf, ws)
               /\ chunkDurations' = Append(chunkDurations, duration)
          ELSE workers' = ws /\ UNCHANGED <<inputVars, pc, presetChain, chainIdx, lastError,
                                            passVars, events, failedPasses,
                                            result>>

\* worker.onmessage, message.type === 'error'
OnChunkError(w) ==
  /\ Delivers(w, "chunk")
  /\ \E text \in ErrorTexts :
       LET ws == Settle(terminateWorker(workers, w), w, "rejected")
       IN IF Awaited(w)
          THEN PassFailed(PlainError(text), ws)
          ELSE workers' = ws /\ UNCHANGED <<inputVars, pc, presetChain, chainIdx, lastError,
                                            passVars, events, failedPasses,
                                            result>>

\* worker.onerror
OnChunkWorkerError(w) ==
  /\ Delivers(w, "chunk")
  /\ \E text \in ErrorTexts :
       LET ws == Settle(terminateWorker(workers, w), w, "rejected")
       IN IF Awaited(w)
          THEN PassFailed(PlainError(WorkerErrorMessage(text)), ws)
          ELSE workers' = ws /\ UNCHANGED <<inputVars, pc, presetChain, chainIdx, lastError,
                                            passVars, events, failedPasses,
                                            result>>

\* A handler that takes a progress message for the result and forgets the teardown.
OnChunkProgressResolves(w) ==
  /\ Delivers(w, "chunk")
  /\ Awaited(w)
  /\ AfterChunk([tag |-> "compressed", preset |-> workers[w].preset,
                 data |-> workers[w].input[1].data, byteLength |-> 0],
                Settle(workers, w, "resolved"))
  /\ chunkDurations' = chunkDurations

\* worker.onmessage, message.type === 'progress': ignored.
OnChunkProgress(w) ==
  /\ Delivers(w, "chunk")
  /\ UNCHANGED vars

\* Timers of equal delay fire in the order they were set.
TimerDue(w) ==
  /\ w \in DOMAIN workers
  /\ workers[w].timer
  /\ \A v \in 1..(w - 1) : ~workers[v].timer

\* The setTimeout callback of compressChunk; nothing ever clears the timer.
OnChunkTimeout(w) ==
  /\ TimerDue(w)
  /\ LET fired == [workers EXCEPT ![w].timer = FALSE]
         ws == Settle(terminateWorker(fired, w), w, "rejected")
     IN IF Awaited(w)
        THEN PassFailed(PlainError(TimeoutMessage), ws)
        ELSE workers' = ws /\ UNCHANGED <<inputVars, pc, presetChain, chainIdx, lastError,
                                          passVars, events, failedPasses,
                                            result>>

(* ------------------------------ mergeChunks ---------------------------- *)

\* mergePDFs on the main thread resolved.
MergeMainDone ==
  /\ pc = "mergeMain"
  /\ pc' = "done"
  /\ result' = PassResult(mergePDFs(compressedChunks), chunkStats, numChunks)
  /\ events' = reportComplete(Tracking(progress, events)).log
  /\ UNCHANGED <<inputVars, presetChain, chainIdx, lastError, passVars, workers,
                 failedPasses>>

\* mergePDFs on the main thread threw `Failed to merge PDFs: ...`.
MergeMainFailed ==
  /\ pc = "mergeMain"
  /\ \E text \in ErrorTexts :
       PassFailed(PlainError(PdfLibFailureMessage(text)), workers)

\* merge worker.onmessage, message.type === 'merge-complete'
OnMergeComplete(w) ==
  /\ Delivers(w, "merge")
  /\ LET ws == Settle(terminateWorker(workers, w), w, "resolved")
     IN IF Awaited(w)
        THEN /\ pc' = "done"
             /\ result' = PassResult(mergePDFs(workers[w].input), chunkStats, numChunks)
             /\ workers' = ws
             /\ events' = reportComplete(Tracking(progress, events)).log
             /\ mergeReports' = 0
             /\ UNCHANGED <<inputVars, presetChain, chainIdx, lastError, loopVars,
                            failedPasses>>
        ELSE workers' = ws /\ UNCHANGED <<inputVars, pc, presetChain, chainIdx, lastError,
                                          passVars, events, failedPasses,
                                            result>>

\* merge worker.onmessage, message.type === 'error'
OnMergeError(w) ==
  /\ Delivers(w, "merge")
  /\ \E text \in ErrorTexts :
       LET ws == Settle(terminateWorker(workers, w), w, "rejected")
       IN IF Awaited(w)
          THEN PassFailed(PlainError(text), ws)
          ELSE workers' = ws /\ UNCHANGED <<inputVars, pc, presetChain, chainIdx, lastError,
                                            passVars, events, failedPasses,
                                            result>>

\* merge worker.onerror
OnMergeWorkerError(w) ==
  /\ Delivers(w, "merge")
  /\ \E text \in ErrorTexts :
       LET ws == Settle(terminateWorker(workers, w), w, "rejected")
       IN IF Awaited(w)
          THEN PassFailed(PlainError(WorkerErrorMessage(text)), ws)
          ELSE workers' = ws /\ UNCHANGED <<inputVars, pc, presetChain, chainIdx, lastError,
                                            passVars, events, failedPasses,
                                            result>>

\* merge worker.onmessage, message.type === 'progress': reportMergingProgress.
OnMergeProgress(w) ==
  /\ Delivers(w, "merge")
  /\ mergeReports < Len(MergeProgressReports)
  /\ LET reported == reportMergingProgress(Tracking(progress, events),
                                           MergeProgressReports[mergeReports + 1])
     IN /\ progress' = reported.t
        /\ events' = reported.log
  /\ mergeReports' = mergeReports + 1
  /\ UNCHANGED <<inputVars, pc, presetChain, chainIdx, lastError, totalPages, chunkSize,
                 numChunks, i, chunkPdf, compressedChunks, chunkStats, ranges, workers,
                 chunkDurations, failedPasses, result>>

(* --------------------------- specification ----------------------------- *)

WorkerIds == 1..Len(workers)

Next ==
  \/ OrchestrateStart
  \/ CountPagesDone
  \/ CountPagesFailed
  \/ ExtractPagesDone
  \/ ExtractPagesFailed
  \/ MergeMainDone
  \/ MergeMainFailed
  \/ \E w \in WorkerIds : OnChunkComplete(w)
  \/ \E w \in WorkerIds : OnChunkError(w)
  \/ \E w \in WorkerIds : OnChunkWorkerError(w)
  \/ \E w \in WorkerIds : OnChunkProgress(w)
  \/ \E w \in WorkerIds : OnChunkTimeout(w)
  \/ \E w \in WorkerIds : OnMergeComplete(w)
  \/ \E w \in WorkerIds : OnMergeError(w)
  \/ \E w \in WorkerIds : OnMergeWorkerError(w)
  \/ \E w \in WorkerIds : OnMergeProgress(w)

Spec == Init /\ [][Next]_vars


\* The event loop runs every macrotask that is queued: an armed timer fires and a
\* pdf-lib call completes.  A worker script is not obliged to ever post anything.
FairSpec ==
  /\ Spec
  /\ WF_vars(\E w \in WorkerIds : OnChunkTimeout(w))
  /\ WF_vars(OrchestrateStart)
  /\ WF_vars(CountPagesDone \/ CountPagesFailed)
  /\ WF_vars(ExtractPagesDone \/ ExtractPagesFailed)
  /\ WF_vars(MergeMainDone \/ MergeMainFailed)

\* The degradation loop on its own: jobs whose caller gives the chunk size, so
\* that a pass is at most two chunks long, under the event loop of FairSpec.
LoopInit == Init /\ opts.chunkSize = MaxChunkSizeOpt

LoopSpec ==
  /\ LoopInit /\ [][Next]_vars
  /\ WF_vars(\E w \in WorkerIds : OnChunkTimeout(w))
  /\ WF_vars(OrchestrateStart)
  /\ WF_vars(CountPagesDone \/ CountPagesFailed)
  /\ WF_vars(ExtractPagesDone \/ ExtractPagesFailed)
  /\ WF_vars(MergeMainDone \/ MergeMainFailed)

(* ------------------------- the planner, alone -------------------------- *)

\* compressWithPreset restricted to its planning arithmetic: lines 239-240 and the
\* loop header with startPage and endPage, for larger documents than Spec walks.
PlanInit ==
  /\ opts = [preset |-> "balanced", gracefulDegradation |-> TRUE, onProgress |-> FALSE,
             chunkSize |-> 0, mergeStrategy |-> "worker"]
  /\ isMobile = FALSE
  /\ pdfBuffer \in {b \in InputBuffers : isValidPDF(b)}
  /\ docPages \in 1..MaxPlanPages
  /\ chunkSize \in 1..MaxPlanChunkSize
  /\ pc = "countPages"
  /\ presetChain = <<"balanced">>
  /\ chainIdx = 1
  /\ lastError = NoError
  /\ totalPages = 0
  /\ numChunks = 0
  /\ i = 0
  /\ chunkPdf = NoBuffer
  /\ compressedChunks = <<>>
  /\ chunkStats = <<>>
  /\ ranges = <<>>
  /\ workers = <<>>
  /\ progress = NewProgressTracker(1)
  /\ chunkDurations = <<>>
  /\ events = <<>>
  /\ mergeReports = 0
  /\ failedPasses = 0
  /\ result = Pending
  /\ options = ExplicitOptions(opts)
  /\ EngineReady
  /\ ScriptIdle

\* `const totalPages = await countPages(...)`, `numChunks = Math.ceil(...)`.
PlanCount ==
  /\ pc = "countPages"
  /\ totalPages' = docPages
  /\ numChunks' = MathCeilDiv(docPages, chunkSize)
  /\ pc' = "loop"
  /\ UNCHANGED <<inputVars, presetChain, chainIdx, lastError, chunkSize, i, chunkPdf,
                 compressedChunks, chunkStats, ranges, workers, progress, chunkDurations,
                 events, mergeReports, failedPasses, result>>

\* One iteration of `for (let i = 0; i < numChunks; i++)`: the page range only.
PlanIteration ==
  /\ pc = "loop"
  /\ i < numChunks
  /\ ranges' = Append(ranges, ChunkRange(i, chunkSize, totalPages))
  /\ i' = i + 1
  /\ UNCHANGED <<inputVars, pc, presetChain, chainIdx, lastError, totalPages, chunkSize,
                 numChunks, chunkPdf, compressedChunks, chunkStats, workers, progress,
                 chunkDurations, events, mergeReports, failedPasses, result>>

PlanNext == PlanCount \/ PlanIteration

PlanSpec == PlanInit /\ [][PlanNext]_vars

(* ------------------------ loader.ts and compress() --------------------- *)

\* new TypeError(message)
TypeError(message) ==
  [name |-> "TypeError", message |-> message, attemptedPreset |-> Undefined,
   originalSize |-> -1, phase |-> Undefined, hasCause |-> FALSE]

\* new CompressionError(message, attemptedPreset, originalSize, phase, cause)
CompressionErrorIn(message, attemptedPreset, originalSize, phase, cause) ==
  [name |-> "CompressionError", message |-> message, attemptedPreset |-> attemptedPreset,
   originalSize |-> originalSize, phase |-> phase, hasCause |-> cause]

\* `pdfBuffer must be an ArrayBuffer`, `Invalid preset: ...`, `Empty PDF buffer`,
\* `Failed to load compression engine`: none holds a classifier keyword.
PlainMessage == {}

\* An input that is not an ArrayBuffer: a typed array over the same bytes.
TypedArray ==
  [tag |-> "typedArray", preset |-> "none", data |-> <<37, 80, 68, 70, 45>>, byteLength |-> 5]

\* new ArrayBuffer(0)
EmptyArrayBuffer == [tag |-> "raw", preset |-> "none", data |-> <<>>, byteLength |-> 0]

\* pdfBuffer instanceof ArrayBuffer
IsArrayBuffer(buffer) == buffer.tag # "typedArray"

\* Preset names a caller passes: the three presets, a name that is none of them,
\* and the empty string.
PresetNames == Presets \cup {"fastest", ""}

\* Before compress() has built fullOptions.
NoOptions ==
  [preset |-> Undefined, gracefulDegradation |-> FALSE, onProgress |-> FALSE,
   chunkSize |-> 0, mergeStrategy |-> Undefined]

\* A loadWASM that starts a load whenever the engine is not ready.
loadWASMUnguarded(handed) ==
  IF isReady /\ goInstance
  THEN handed = NoPromise /\ UNCHANGED <<goInstance, isLoading, loadPromise, isReady, loads>>
  ELSE /\ handed = Len(loads) + 1
       /\ isLoading' = TRUE
       /\ loads' = Append(loads, "fetching")
       /\ loadPromise' = Len(loads) + 1
       /\ UNCHANGED <<goInstance, isReady>>

\* A loadWASM that hands out the promise it kept, settled or not.
loadWASMKeepsSettledPromise(handed) ==
  IF isReady /\ goInstance
  THEN handed = NoPromise /\ UNCHANGED <<goInstance, isLoading, loadPromise, isReady, loads>>
  ELSE IF loadPromise # NoPromise
  THEN handed = loadPromise /\ UNCHANGED <<goInstance, isLoading, loadPromise, isReady, loads>>
  ELSE /\ handed = Len(loads) + 1
       /\ isLoading' = TRUE
       /\ loads' = Append(loads, "fetching")
       /\ loadPromise' = Len(loads) + 1
       /\ UNCHANGED <<goInstance, isReady>>

\* loadWASM(wasmUrl) up to its return.  handed is the load the caller is left
\* waiting for, NoPromise when the engine is ready and the call returns at once.
\* A load that is started runs to its first await: the script or the binary is
\* being fetched.
loadWASM(handed) ==
  IF isReady /\ goInstance
  THEN handed = NoPromise /\ UNCHANGED <<goInstance, isLoading, loadPromise, isReady, loads>>
  ELSE IF isLoading /\ loadPromise # NoPromise
  THEN handed = loadPromise /\ UNCHANGED <<goInstance, isLoading, loadPromise, isReady, loads>>
  ELSE /\ handed = Len(loads) + 1
       /\ isLoading' = TRUE
       /\ loads' = Append(loads, "fetching")
       /\ loadPromise' = Len(loads) + 1
       /\ UNCHANGED <<goInstance, isReady>>

\* The state a caller is in after loadWASM handed it load k.
AfterCall(k) == IF k = NoPromise THEN Resumed("returned", NoPromise) ELSE AwaitingLoad(k)

\* What compress() leaves alone: the job it has not started.
notStarted == <<presetChain, chainIdx, lastError, passVars, workers, failedPasses>>

\* compress(pdfBuffer, options) up to its first await or its throw.
compress ==
  /\ pc = "call"
  /\ IF ~IsArrayBuffer(pdfBuffer)
     THEN /\ result' = Rejection(TypeError(PlainMessage))
          /\ pc' = "done"
          /\ UNCHANGED <<opts, events, loaderVars>>
     ELSE IF pdfBuffer.byteLength = 0
     THEN /\ result' = Rejection(CompressionError(PlainMessage, "lossless", 0))
          /\ pc' = "done"
          /\ UNCHANGED <<opts, events, loaderVars>>
     ELSE /\ opts' = FullOptions(options)
          /\ IF opts'.preset \notin {"lossless", "balanced", "max"}
             THEN /\ result' = Rejection(TypeError(PlainMessage))
                  /\ pc' = "done"
                  /\ UNCHANGED <<events, loaderVars>>
             ELSE /\ events' = IF opts'.onProgress THEN <<InitialEvent>> ELSE <<>>
                  /\ \E handed \in 0..(Len(loads) + 1) :
                       /\ loadWASM(handed)
                       /\ callers' = [callers EXCEPT ![0] = AfterCall(handed)]
                       /\ pc' = IF handed = NoPromise THEN "start" ELSE "loadWASM"
                  /\ result' = result
  /\ UNCHANGED <<isMobile, pdfBuffer, docPages, options, notStarted, scriptVars>>

\* Another caller calls loadWASM.
CallLoadWASM(c) ==
  /\ c \in OtherCallers
  /\ callers[c] = Idle
  /\ \E handed \in 0..(Len(loads) + 1) :
       /\ loadWASM(handed)
       /\ callers' = [callers EXCEPT ![c] = AfterCall(handed)]
  /\ UNCHANGED <<jobInputs, options, pc, notStarted, scriptVars, events, result>>

\* Load k has the binary: `goInstance = go`, then WebAssembly.instantiate.
LoadInstantiates(k) ==
  /\ k \in DOMAIN loads
  /\ loads[k] = "fetching"
  /\ loads' = [loads EXCEPT ![k] = "instantiating"]
  /\ goInstance' = TRUE
  /\ UNCHANGED <<jobInputs, options, pc, notStarted, scriptVars, events, result,
                 isLoading, loadPromise, isReady, callers>>

\* Every caller suspended on load k resumes.
ResumeAll(k, status) ==
  [c \in DOMAIN callers |->
     IF callers[c] = AwaitingLoad(k) THEN Resumed(status, k) ELSE callers[c]]

\* compress() is suspended on load k.
CompressAwaits(k) == pc = "loadWASM" /\ callers[0] = AwaitingLoad(k)

\* checkReady finds the exported functions: `isReady = true`, the load promise
\* resolves, `finally` clears isLoading, and the callers go on; compress() calls
\* orchestrateCompression.
LoadSucceeds(k) ==
  /\ k \in DOMAIN loads
  /\ loads[k] = "instantiating"
  /\ loads' = [loads EXCEPT ![k] = "resolved"]
  /\ isReady' = TRUE
  /\ isLoading' = FALSE
  /\ callers' = ResumeAll(k, "returned")
  /\ pc' = IF CompressAwaits(k) THEN "start" ELSE pc
  /\ UNCHANGED <<jobInputs, options, notStarted, scriptVars, events, result,
                 goInstance, loadPromise>>

\* A compress() that falls back to the original document when the engine fails.
EngineLoadFailureDegrades ==
  IF opts.gracefulDegradation THEN FallbackResult
  ELSE Rejection(CompressionErrorIn(PlainMessage, opts.preset, pdfBuffer.byteLength,
                                    "chunking", TRUE))

\* The catch block of compress() 77-85: loadWASM throws an Error, which is attached
\* as the cause.
EngineLoadFailure ==
  Rejection(CompressionErrorIn(PlainMessage, opts.preset, pdfBuffer.byteLength,
                               "chunking", TRUE))

\* A step of load k throws: the catch block clears goInstance and isReady, `finally`
\* clears isLoading, and every caller's await throws `Failed to load WASM: ...`.
LoadFails(k) ==
  /\ k \in DOMAIN loads
  /\ loads[k] \in {"fetching", "instantiating"}
  /\ loads' = [loads EXCEPT ![k] = "rejected"]
  /\ goInstance' = FALSE
  /\ isReady' = FALSE
  /\ isLoading' = FALSE
  /\ callers' = ResumeAll(k, "threw")
  /\ IF CompressAwaits(k)
     THEN pc' = "done" /\ result' = EngineLoadFailure
     ELSE UNCHANGED <<pc, result>>
  /\ UNCHANGED <<jobInputs, options, notStarted, scriptVars, events, loadPromise>>

\* A page in which nothing has called loadWASM, and a compress() call to come.
ApiInit ==
  /\ options \in [preset : {Absent} \cup {<<name>> : name \in PresetNames},
                   gracefulDegradation : {Absent, <<TRUE>>, <<FALSE>>},
                   onProgress : BOOLEAN,
                   chunkSize : {Absent},
                   mergeStrategy : {Absent, <<"main">>}]
  /\ pdfBuffer \in InputBuffers \cup {EmptyArrayBuffer, TypedArray}
  /\ opts = NoOptions
  /\ isMobile = FALSE
  /\ docPages = 1
  /\ pc = "call"
  /\ presetChain = <<>>
  /\ chainIdx = 0
  /\ lastError = NoError
  /\ totalPages = 0
  /\ chunkSize = 0
  /\ numChunks = 0
  /\ i = 0
  /\ chunkPdf = NoBuffer
  /\ compressedChunks = <<>>
  /\ chunkStats = <<>>
  /\ ranges = <<>>
  /\ workers = <<>>
  /\ progress = NewProgressTracker(0)
  /\ chunkDurations = <<>>
  /\ events = <<>>
  /\ mergeReports = 0
  /\ failedPasses = 0
  /\ result = Pending
  /\ goInstance = FALSE
  /\ isLoading = FALSE
  /\ loadPromise = NoPromise
  /\ isReady = FALSE
  /\ loads = <<>>
  /\ callers = [c \in {0} \cup OtherCallers |-> Idle]
  /\ ScriptIdle

ApiNext ==
  \/ compress
  \/ \E c \in OtherCallers : CallLoadWASM(c)
  \/ \E k \in DOMAIN loads : LoadInstantiates(k)
  \/ \E k \in DOMAIN loads : LoadSucceeds(k)
  \/ \E k \in DOMAIN loads : LoadFails(k)

\* compress() up to its call of orchestrateCompression, where Spec takes over, with
\* other callers of loadWASM on the same page.
ApiSpec == ApiInit /\ [][ApiNext]_vars

\* unloadWASM(): all four module variables are reset, whatever load is in flight.
unloadWASM ==
  /\ goInstance' = FALSE
  /\ isReady' = FALSE
  /\ isLoading' = FALSE
  /\ loadPromise' = NoPromise
  /\ UNCHANGED <<jobInputs, options, pc, notStarted, scriptVars, events, result,
                 loads, callers>>

LoaderNext ==
  \/ compress
  \/ \E c \in OtherCallers : CallLoadWASM(c)
  \/ \E k \in DOMAIN loads : LoadInstantiates(k)
  \/ \E k \in DOMAIN loads : LoadSucceeds(k)
  \/ \E k \in DOMAIN loads : LoadFails(k)
  \/ unloadWASM

\* The loader with its callers and with unloadWASM called at any moment.
LoaderSpec == ApiInit /\ [][LoaderNext]_vars

(* ------------- compression.worker.ts and compressChunk, alone ---------- *)

\* WorkerProgressMessage, ChunkCompleteMessage and WorkerErrorMessage.
ProgressMessage(value) ==
  [type |-> "progress", progress |-> value, chunkIndex |-> -1, compressedPdf |-> NoBuffer,
   error |-> {}]

ChunkCompleteMessage(chunkIndex, compressedPdf) ==
  [type |-> "chunk-complete", progress |-> -1, chunkIndex |-> chunkIndex,
   compressedPdf |-> compressedPdf, error |-> {}]

ErrorMessage(text) ==
  [type |-> "error", progress |-> -1, chunkIndex |-> -1, compressedPdf |-> NoBuffer,
   error |-> text]

\* postProgress(progress, message)
postProgress(log, value) == Append(log, ProgressMessage(value))

\* `Failed to load WASM: ...`, what loadWASM throws.
LoadFailureMessage == {"wasm"}

\* The worker compressChunk created last, and the task it was sent.
Live == workers[Len(workers)]

\* The script runs until worker.terminate().
ScriptRuns == Live.kind = "chunk" /\ Live.alive

\* What the worker script never touches: the main thread.
mainThread == <<jobInputs, options, loaderVars, pc, presetChain, chainIdx, lastError,
                passVars, workers, events, failedPasses, result>>

\* self.onmessage with a compress-chunk message: handleCompressChunk up to
\* `await loadWASM()`.
HandleCompressChunk ==
  /\ ScriptRuns
  /\ script = "idle"
  /\ posted' = postProgress(posted, 10)
  /\ script' = "loadWASM"
  /\ UNCHANGED <<mainThread, delivered, uncaught>>

\* loadWASM() resolved: up to `await compressPDFWithWASM(...)`.
WorkerEngineLoaded ==
  /\ ScriptRuns
  /\ script = "loadWASM"
  /\ posted' = postProgress(posted, 30)
  /\ script' = "compress"
  /\ UNCHANGED <<mainThread, delivered, uncaught>>

\* loadWASM() threw: the catch block posts the error message.
WorkerEngineLoadFailed ==
  /\ ScriptRuns
  /\ script = "loadWASM"
  /\ posted' = Append(posted, ErrorMessage(LoadFailureMessage))
  /\ script' = "done"
  /\ UNCHANGED <<mainThread, delivered, uncaught>>

\* compressPDFWithWASM resolved: progress 100, then the chunk-complete message.
WorkerCompressed ==
  /\ ScriptRuns
  /\ script = "compress"
  /\ \E size \in CompressedByteLengths :
       posted' = Append(postProgress(posted, 100),
                        ChunkCompleteMessage(Live.chunkIndex,
                          [tag |-> "compressed", preset |-> Live.preset,
                           data |-> Live.input[1].data, byteLength |-> size]))
  /\ script' = "done"
  /\ UNCHANGED <<mainThread, delivered, uncaught>>

\* compressPDFWithWASM threw: the catch block posts the error message.
WorkerCompressFailed ==
  /\ ScriptRuns
  /\ script = "compress"
  /\ \E text \in ErrorTexts : posted' = Append(posted, ErrorMessage(text))
  /\ script' = "done"
  /\ UNCHANGED <<mainThread, delivered, uncaught>>

\* self.onerror: an exception nobody caught in the worker's global scope (a
\* callback of the engine's runtime or of a timer, for instance)
\* is reported as one more error message.
WorkerOnError ==
  /\ ScriptRuns
  /\ script \in {"compress", "done"}
  /\ uncaught < MaxUncaughtErrors
  /\ uncaught' = uncaught + 1
  /\ posted' = Append(posted, ErrorMessage({}))
  /\ UNCHANGED <<mainThread, script, delivered>>

\* The message worker.onmessage of compressChunk handles next.
Receives(type) ==
  /\ ScriptRuns
  /\ delivered < Len(posted)
  /\ posted[delivered + 1].type = type

\* A handler that tears the worker down on a progress message.
DeliverProgressTearsDown ==
  /\ Receives("progress")
  /\ delivered' = delivered + 1
  /\ workers' = terminateWorker(workers, Len(workers))
  /\ UNCHANGED <<jobInputs, options, loaderVars, pc, presetChain, chainIdx, lastError,
                 passVars, events, failedPasses, result, script, posted, uncaught>>

\* worker.onmessage, message.type === 'progress': no branch is taken.
DeliverProgress ==
  /\ Receives("progress")
  /\ delivered' = delivered + 1
  /\ UNCHANGED <<mainThread, script, posted, uncaught>>

\* The pass variables compressChunk does not settle into.
untouched == <<totalPages, chunkSize, numChunks, i, chunkPdf, chunkStats, ranges,
               progress, chunkDurations, mergeReports>>

\* worker.onmessage, message.type === 'chunk-complete': the promise resolves with
\* compressedPdf, which the caller pushes on compressedChunks.
DeliverChunkComplete ==
  /\ Receives("chunk-complete")
  /\ delivered' = delivered + 1
  /\ workers' = Settle(terminateWorker(workers, Len(workers)), Len(workers), "resolved")
  /\ IF Live.promise = "pending"
     THEN /\ pc' = "chunkResolved"
          /\ compressedChunks' = Append(compressedChunks, posted[delivered + 1].compressedPdf)
     ELSE UNCHANGED <<pc, compressedChunks>>
  /\ UNCHANGED <<jobInputs, options, loaderVars, presetChain, chainIdx, lastError,
                 untouched, events, failedPasses, result, script, posted, uncaught>>

\* The promise of the live worker rejects with error, which the caller catches.
RejectChunk(ws, error) ==
  /\ workers' = Settle(terminateWorker(ws, Len(ws)), Len(ws), "rejected")
  /\ IF Live.promise = "pending"
     THEN pc' = "chunkRejected" /\ lastError' = error
     ELSE UNCHANGED <<pc, lastError>>
  /\ UNCHANGED <<jobInputs, options, loaderVars, presetChain, chainIdx, compressedChunks,
                 untouched, events, failedPasses, result, script, posted, uncaught>>

\* worker.onmessage, message.type === 'error'
DeliverError ==
  /\ Receives("error")
  /\ delivered' = delivered + 1
  /\ RejectChunk(workers, PlainError(posted[delivered + 1].error))

\* worker.onerror: the error event of an uncaught exception reaches the Worker
\* object of the main thread as well.
DeliverErrorEvent ==
  /\ ScriptRuns
  /\ uncaught > 0
  /\ delivered' = delivered
  /\ RejectChunk(workers, PlainError(WorkerErrorMessage({})))

\* The setTimeout callback of compressChunk of worker w.
ChunkTimerFires(w) ==
  /\ TimerDue(w)
  /\ delivered' = delivered
  /\ IF w = Len(workers)
     THEN RejectChunk([workers EXCEPT ![w].timer = FALSE], PlainError(TimeoutMessage))
     ELSE /\ workers' = Settle(terminateWorker([workers EXCEPT ![w].timer = FALSE], w),
                               w, "rejected")
          /\ UNCHANGED <<jobInputs, options, loaderVars, pc, presetChain, chainIdx,
                         lastError, compressedChunks, untouched, events, failedPasses,
                         result, script, posted, uncaught>>

\* The chunk of page k of a two-page document cut into chunks of one page.
PageChunk(k) == extractPages(2, k, k + 1)

\* compressChunk has just been called for chunk i of the first pass over a two-page
\* document in chunks of one page; the chunks before it were compressed.
WorkerInit ==
  /\ opts \in [preset : Presets, gracefulDegradation : BOOLEAN, onProgress : {FALSE},
                chunkSize : {1}, mergeStrategy : {"worker"}]
  /\ isMobile = FALSE
  /\ pdfBuffer \in {b \in InputBuffers : isValidPDF(b)}
  /\ docPages = 2
  /\ pc = "awaitChunk"
  /\ presetChain = (IF opts.gracefulDegradation THEN getPresetFallbackChain(opts.preset)
                    ELSE <<opts.preset>>)
  /\ chainIdx = 1
  /\ lastError = NoError
  /\ totalPages = 2
  /\ chunkSize = 1
  /\ numChunks = 2
  /\ i \in 0..1
  /\ chunkPdf = Transferred(PageChunk(i))
  /\ compressedChunks =
       [k \in 1..i |-> [tag |-> "compressed", preset |-> opts.preset,
                        data |-> PageChunk(k - 1).data, byteLength |-> 3]]
  /\ chunkStats = [k \in 1..i |-> [originalSize |-> PageChunk(k - 1).byteLength,
                                    compressedSize |-> 3]]
  /\ ranges = [k \in 1..(i + 1) |-> ChunkRange(k - 1, 1, 2)]
  /\ workers =
       [k \in 1..(i + 1) |->
          [kind |-> "chunk", chunkIndex |-> k - 1, preset |-> opts.preset,
           input |-> <<PageChunk(k - 1)>>, alive |-> k = i + 1,
           terminateCalls |-> IF k = i + 1 THEN 0 ELSE 1, timer |-> TRUE,
           promise |-> IF k = i + 1 THEN "pending" ELSE "resolved"]]
  /\ progress = [NewProgressTracker(1) EXCEPT !.totalChunks = 2, !.completedChunks = i,
                                              !.currentPhase = "compressing",
                                              !.chunkTimes = [k \in 1..i |-> 3]]
  /\ chunkDurations = [k \in 1..i |-> 7]
  /\ events = <<>>
  /\ mergeReports = 0
  /\ failedPasses = 0
  /\ result = Pending
  /\ options = ExplicitOptions(opts)
  /\ EngineReady
  /\ ScriptIdle

WorkerNext ==
  \/ HandleCompressChunk
  \/ WorkerEngineLoaded
  \/ WorkerEngineLoadFailed
  \/ WorkerCompressed
  \/ WorkerCompressFailed
  \/ WorkerOnError
  \/ DeliverProgress
  \/ DeliverChunkComplete
  \/ DeliverError
  \/ DeliverErrorEvent
  \/ \E w \in WorkerIds : ChunkTimerFires(w)

\* One compressChunk call and the script of its worker, message by message; Spec
\* keeps of the script only the messages it may post.
WorkerSpec == WorkerInit /\ [][WorkerNext]_vars

(* ------------------------------- claims -------------------------------- *)

RangeLength(r) == r.endPage - r.startPage

\* C1: for totalPages > 0 and chunkSize > 0 the ranges built so far are non-empty,
\* start at page 0, follow one another without gap or overlap and stay within
\* totalPages; once the loop has ended there are numChunks of them, the last one ends
\* at totalPages, every page lies in exactly one range, numChunks is
\* ceil(totalPages / chunkSize), and 25 pages by 10 give lengths 10, 10, 5.
C1_RangesPartitionPages ==
  pc = "loop" =>
    /\ \A k \in DOMAIN ranges :
         /\ ranges[k].startPage < ranges[k].endPage
         /\ ranges[k].endPage <= totalPages
         /\ RangeLength(ranges[k]) <= chunkSize
    /\ ranges # <<>> => ranges[1].startPage = 0
    /\ \A k \in 1..(Len(ranges) - 1) : ranges[k].endPage = ranges[k + 1].startPage
    /\ i = numChunks =>
         /\ Len(ranges) = numChunks
         /\ ranges[Len(ranges)].endPage = totalPages
         /\ \A page \in 0..(totalPages - 1) :
              Cardinality({k \in DOMAIN ranges :
                             ranges[k].startPage <= page /\ page < ranges[k].endPage}) = 1
         /\ (numChunks - 1) * chunkSize < totalPages
         /\ totalPages <= numChunks * chunkSize
         /\ (totalPages = 25 /\ chunkSize = 10) =>
              [k \in DOMAIN ranges |-> RangeLength(ranges[k])] = <<10, 10, 5>>

C1_Witness ==
  /\ pc = "loop"
  /\ i = numChunks
  /\ totalPages = 25
  /\ chunkSize = 10
  /\ Len(ranges) = 3
  /\ ranges[3] = [startPage |-> 20, endPage |-> 25]

ExpectedChain(preset) ==
  CASE preset = "max" -> <<"max", "balanced", "lossless">>
    [] preset = "balanced" -> <<"balanced", "lossless">>
    [] preset = "lossless" -> <<"lossless">>

\* C2: the fallback chain is max, balanced, lossless for max; balanced, lossless for
\* balanced; lossless for lossless; the chain a job with degradation enabled walks is
\* that chain; a fallback is a strictly milder preset, lossless has none, and no
\* chain repeats a preset.
C2_FallbackChain ==
  /\ \A preset \in Presets :
       /\ getPresetFallbackChain(preset) = ExpectedChain(preset)
       /\ preset = "lossless" => getFallbackPreset(preset) = Undefined
       /\ getFallbackPreset(preset) # Undefined =>
            /\ getFallbackPreset(preset) \in Presets
            /\ Aggressiveness(getFallbackPreset(preset)) < Aggressiveness(preset)
  /\ (presetChain # <<>> /\ opts.gracefulDegradation) =>
       presetChain = ExpectedChain(opts.preset)
  /\ \A a, b \in DOMAIN presetChain : a # b => presetChain[a] # presetChain[b]

C2_Witness ==
  /\ pc = "countPages"
  /\ opts.preset = "max"
  /\ presetChain = <<"max", "balanced", "lossless">>

\* C3: with degradation enabled, once the pass under every preset of the chain has
\* failed, the job resolves with the input's bytes, compressedSize = originalSize =
\* the input's byte length, ratio 1 and a warning.
C3_ExhaustedChainReturnsOriginal ==
  (pc = "done" /\ opts.gracefulDegradation /\ presetChain # <<>>
     /\ failedPasses = Len(presetChain)) =>
    /\ result.state = "resolved"
    /\ result.pdf.data = pdfBuffer.data
    /\ result.pdf.byteLength = pdfBuffer.byteLength
    /\ result.stats.originalSize = pdfBuffer.byteLength
    /\ result.stats.compressedSize = result.stats.originalSize
    /\ result.stats.ratio.num = result.stats.ratio.den
    /\ result.stats.ratio.den # 0
    /\ result.warning # NoWarning

C3_Witness ==
  /\ pc = "done"
  /\ opts.gracefulDegradation
  /\ opts.preset = "max"
  /\ failedPasses = 3
  /\ isRecoverableError(classifyError(lastError.message))
  /\ result.state = "resolved"
  /\ result.pdf.data = <<37, 80, 68, 70, 45>>

\* C4: after a pass has failed with a non-recoverable error the job is over and
\* rejected: no further pass is started, whatever gracefulDegradation is.
C4_NonRecoverableRejectsAtOnce ==
  (failedPasses > 0 /\ ~isRecoverableError(classifyError(lastError.message))) =>
    (pc = "done" /\ result.state = "rejected")

\* A step in which a pass fails.
PassFailsInStep == failedPasses' = failedPasses + 1

\* A job that succeeded after failed passes: the preset, warning and pages it reports.
SucceededAfterFallbackIsUniform ==
  (pc = "done" /\ result.state = "resolved" /\ result.warning # FailureWarning
     /\ failedPasses > 0) =>
    /\ failedPasses < Len(presetChain)
    /\ result.stats.presetUsed = presetChain[failedPasses + 1]
    /\ result.stats.presetUsed = CurrentPreset
    /\ result.warning = FallbackWarning(opts.preset, result.stats.presetUsed)
    /\ result.stats.chunksProcessed = numChunks
    /\ result.pdf.data = [k \in 1..totalPages |-> k - 1]
    /\ numChunks > 0 => result.pdf.preset = result.stats.presetUsed

\* C5: with degradation enabled, a pass that fails with a recoverable error under a
\* preset that has a milder one is followed by a pass under that milder preset which
\* starts over (page counting, chunk index 0, no chunk kept); a job that succeeds
\* after failed passes reports the preset of the successful pass, a warning naming
\* the fallback, and an artifact holding every page compressed under that preset.
C5_RetryRestartsWholePass ==
  /\ [][(/\ PassFailsInStep
         /\ opts.gracefulDegradation
         /\ isRecoverableError(classifyError(lastError'.message))
         /\ getFallbackPreset(CurrentPreset) # Undefined)
        => (/\ chainIdx' = chainIdx + 1
            /\ presetChain[chainIdx'] = getFallbackPreset(CurrentPreset)
            /\ pc' = "countPages"
            /\ i' = 0
            /\ compressedChunks' = <<>>
            /\ chunkStats' = <<>>
            /\ ranges' = <<>>)]_vars
  /\ []SucceededAfterFallbackIsUniform

\* max failed at chunk 2 of 2 with an out-of-memory error, balanced then ran both chunks.
C5_Witness ==
  /\ pc = "done"
  /\ result.state = "resolved"
  /\ opts.preset = "max"
  /\ result.stats.presetUsed = "balanced"
  /\ classifyError(lastError.message) = "OUT_OF_MEMORY"
  /\ Len(workers) >= 4
  /\ workers[1].preset = "max" /\ workers[1].chunkIndex = 0 /\ workers[1].promise = "resolved"
  /\ workers[2].preset = "max" /\ workers[2].chunkIndex = 1 /\ workers[2].promise = "rejected"
  /\ workers[3].preset = "balanced" /\ workers[3].chunkIndex = 0
  /\ workers[3].promise = "resolved"
  /\ workers[4].preset = "balanced" /\ workers[4].chunkIndex = 1
  /\ workers[4].promise = "resolved"

\* C6: with degradation disabled, a failed pass rejects the job with a
\* CompressionError carrying the attempted preset, the original size, the phase and
\* the underlying cause.
C6_RejectsWithCompressionError ==
  (pc = "done" /\ ~opts.gracefulDegradation /\ failedPasses > 0) =>
    /\ result.state = "rejected"
    /\ result.error.name = "CompressionError"
    /\ result.error.attemptedPreset = opts.preset
    /\ result.error.originalSize = pdfBuffer.byteLength
    /\ result.error.phase # Undefined
    /\ result.error.hasCause

\* The timer of chunk worker w fires in this step while its promise is pending.
TimesOutInStep(w) ==
  /\ workers[w].kind = "chunk"
  /\ workers[w].timer
  /\ ~workers'[w].timer
  /\ workers[w].promise = "pending"

\* C7: when the timer of a chunk fires before any terminal message, the chunk promise
\* is rejected, the pass fails with an error classified TIMEOUT, the worker has been
\* terminated once, and it is never terminated again.
C7_TimeoutRejectsAndTerminatesOnce ==
  /\ [][\A w \in DOMAIN workers :
          TimesOutInStep(w) =>
            /\ workers'[w].promise = "rejected"
            /\ ~workers'[w].alive
            /\ workers'[w].terminateCalls = 1
            /\ PassFailsInStep
            /\ classifyError(lastError'.message) = "TIMEOUT"
            /\ isRecoverableError(classifyError(lastError'.message))]_vars
  /\ [][\A w \in DOMAIN workers :
          (workers[w].kind = "chunk" /\ ~workers[w].timer /\ ~workers[w].alive) =>
            workers'[w].terminateCalls = workers[w].terminateCalls]_vars

\* A chunk worker rejected by its timer: terminated once, the timer gone.
C7_Witness ==
  /\ classifyError(lastError.message) = "TIMEOUT"
  /\ \E w \in DOMAIN workers :
       /\ workers[w].kind = "chunk"
       /\ workers[w].promise = "rejected"
       /\ ~workers[w].timer
       /\ ~workers[w].alive
       /\ workers[w].terminateCalls = 1

\* C8: a chunk promise that has settled belongs to a worker that was terminated.
C8_SettledChunkIsTerminated ==
  \A w \in DOMAIN workers :
    (workers[w].kind = "chunk" /\ workers[w].promise # "pending") =>
      (~workers[w].alive /\ workers[w].terminateCalls >= 1)

C8_Witness ==
  /\ \E w \in DOMAIN workers :
       workers[w].kind = "chunk" /\ workers[w].promise = "resolved" /\ ~workers[w].alive
  /\ \E w \in DOMAIN workers :
       workers[w].kind = "chunk" /\ workers[w].promise = "rejected" /\ ~workers[w].alive

MergeContextLive ==
  \E w \in DOMAIN workers : workers[w].kind = "merge" /\ workers[w].alive

\* C9: a merge context that is alive is eventually terminated, and the merge step
\* the orchestrator awaits eventually settles.
C9_MergeContextIsTornDown ==
  /\ MergeContextLive ~> ~MergeContextLive
  /\ (pc = "awaitMerge") ~> (pc # "awaitMerge")

\* C10: at most one chunk context is alive, and every chunk context created before
\* another one has settled and been terminated.
C10_ChunksRunOneAtATime ==
  /\ Cardinality({w \in DOMAIN workers : workers[w].kind = "chunk" /\ workers[w].alive}) <= 1
  /\ \A v, w \in DOMAIN workers :
       (v < w /\ workers[v].kind = "chunk" /\ workers[w].kind = "chunk") =>
         (workers[v].promise # "pending" /\ ~workers[v].alive)

\* The second chunk of a pass is running after the first one completed.
C10_Witness ==
  /\ pc = "awaitChunk"
  /\ i = 1
  /\ Len(workers) = 2
  /\ workers[1].promise = "resolved" /\ ~workers[1].alive
  /\ workers[2].alive /\ workers[2].chunkIndex = 1

\* The page indices of range r, in order.
PagesOf(r) == [k \in 1..RangeLength(r) |-> r.startPage + (k - 1)]

\* The chunk workers created by the pass in progress.
ChunkWorkersOfPass ==
  {w \in DOMAIN workers : workers[w].kind = "chunk" /\ workers[w].preset = CurrentPreset}

\* C11: every chunk worker was given exactly one task, holding the pages of its chunk;
\* no two chunk workers serve the same chunk of the same pass; every compressChunk
\* call of the pass has a worker of its own; and while the chunk is awaited the
\* sender's chunkPdf is detached (byteLength 0) and the awaited worker owns the bytes.
C11_FreshContextOneTransferredTask ==
  /\ \A w \in DOMAIN workers :
       workers[w].kind = "chunk" =>
         /\ Len(workers[w].input) = 1
         /\ workers[w].input[1].tag = "pages"
         /\ workers[w].input[1].byteLength > 0
         /\ \A v \in DOMAIN workers :
              (v # w /\ workers[v].kind = "chunk") =>
                <<workers[v].preset, workers[v].chunkIndex>>
                  # <<workers[w].preset, workers[w].chunkIndex>>
  /\ pc = "extractPages" => Cardinality(ChunkWorkersOfPass) = i
  /\ pc = "awaitChunk" =>
       /\ Cardinality(ChunkWorkersOfPass) = i + 1
       /\ chunkPdf.tag = "detached"
       /\ chunkPdf.byteLength = 0
       /\ workers[Len(workers)].kind = "chunk"
       /\ workers[Len(workers)].chunkIndex = i
       /\ workers[Len(workers)].preset = CurrentPreset
       /\ workers[Len(workers)].input[1].data = PagesOf(ranges[i + 1])

\* The second chunk of a retried pass is with its worker; the sender's copy is gone.
C11_Witness ==
  /\ pc = "awaitChunk"
  /\ chainIdx = 2
  /\ i = 1
  /\ chunkPdf.byteLength = 0
  /\ Len(workers) >= 3
  /\ workers[Len(workers)].alive
  /\ workers[Len(workers)].input[1].data = <<1>>

\* C12: the chunk outputs collected by the loop, the chunks handed to the merge
\* worker and the pages of the merged artifact are in chunk order, for either merge
\* strategy.
C12_ChunkOrderPreserved ==
  /\ pc \in {"extractPages", "awaitChunk", "mergeMain"} =>
       \A k \in DOMAIN compressedChunks : compressedChunks[k].data = PagesOf(ranges[k])
  /\ pc = "awaitMerge" =>
       /\ workers[Len(workers)].kind = "merge"
       /\ Len(workers[Len(workers)].input) = numChunks
       /\ \A k \in DOMAIN workers[Len(workers)].input :
            workers[Len(workers)].input[k].data = PagesOf(ranges[k])
  /\ (pc = "done" /\ result.state = "resolved" /\ result.warning # FailureWarning) =>
       result.pdf.data = [k \in 1..totalPages |-> k - 1]

\* Two chunks merged by the merge worker: page 0 before page 1.
C12_Witness ==
  /\ pc = "done"
  /\ result.state = "resolved"
  /\ opts.mergeStrategy = "worker"
  /\ numChunks = 2
  /\ result.pdf.tag = "merged"
  /\ result.pdf.data = <<0, 1>>

\* C13: a pass of exactly one chunk never enters a merge, creates no merge worker,
\* and resolves with that chunk's compressed buffer unchanged and chunksProcessed 1,
\* for either merge strategy.
C13_SingleChunkPassThrough ==
  /\ (numChunks = 1 /\ chainIdx > 0) =>
       /\ pc \notin {"mergeMain", "awaitMerge"}
       /\ \A w \in DOMAIN workers :
            workers[w].kind = "merge" => workers[w].preset # CurrentPreset
  /\ (pc = "done" /\ result.state = "resolved" /\ result.warning # FailureWarning
        /\ numChunks = 1) =>
       /\ result.pdf = compressedChunks[1]
       /\ result.pdf.tag = "compressed"
       /\ result.pdf.byteLength \in CompressedByteLengths
       /\ result.stats.chunksProcessed = 1

\* A two-page document in one chunk, under the worker merge strategy.
C13_Witness ==
  /\ pc = "done"
  /\ result.state = "resolved"
  /\ opts.mergeStrategy = "worker"
  /\ numChunks = 1
  /\ totalPages = 2
  /\ result.pdf.tag = "compressed"
  /\ result.pdf.data = <<0, 1>>

\* A progress value between lo and hi percent.
Within(value, lo, hi) == RatLeq(Rat(lo, 1), value) /\ RatLeq(value, Rat(hi, 1))

\* The positions of the events emitted with phase tag phase.
EventsOfPhase(phase) == {k \in DOMAIN events : events[k].phase = phase}

\* The events at positions a and b were emitted, in that order, in one pass under one
\* phase tag.
SuccessiveInPhase(a, b) ==
  /\ a < b
  /\ events[a].phase = events[b].phase
  /\ events[a].pass = events[b].pass

\* C14: every event emitted with phase 'compressing' has a progress value in [10, 90],
\* and within a pass these values never decrease.
C14_CompressingWithin10To90 ==
  /\ \A k \in EventsOfPhase("compressing") : Within(events[k].progress, 10, 90)
  /\ \A a, b \in EventsOfPhase("compressing") :
       SuccessiveInPhase(a, b) => RatLeq(events[a].progress, events[b].progress)

\* A pass of two chunks emitted 10, 50, 50, 90.
C14_Witness ==
  /\ Cardinality(EventsOfPhase("compressing")) = 4
  /\ \E a, b \in EventsOfPhase("compressing") :
       /\ a < b
       /\ events[a].pass = events[b].pass
       /\ events[a].progress = Rat(20, 2)
       /\ events[b].progress = Rat(180, 2)

\* C15: every event emitted with phase 'merging' has a progress value in [90, 100].
C15_MergingWithin90To100 ==
  \A k \in EventsOfPhase("merging") : Within(events[k].progress, 90, 100)

\* C16: within a pass, the progress values emitted under one of the phase tags
\* chunking, compressing, merging never decrease.
C16_NonDecreasingWithinPhase ==
  \A a, b \in DOMAIN events :
    (SuccessiveInPhase(a, b) /\ events[a].phase \in {"chunking", "compressing", "merging"}) =>
      RatLeq(events[a].progress, events[b].progress)

\* C17: every event emitted with phase 'chunking' has a progress value in [0, 10].
C17_ChunkingWithin0To10 ==
  \A k \in EventsOfPhase("chunking") : Within(events[k].progress, 0, 10)

\* The error-recovery events that announce a retry under a milder preset.
RetryAnnouncements ==
  {k \in EventsOfPhase("error-recovery") : "Trying" \in {events[k].message[n] : n \in DOMAIN events[k].message}}

\* C18: an error-recovery event that announces a retry carries the progress value of
\* the event emitted before it (the position the job had reached when the pass
\* failed) and a message naming the preset that is tried next.
C18_RecoveryKeepsPosition ==
  \A k \in RetryAnnouncements :
    /\ k > 1 =>
         /\ RatLeq(events[k].progress, events[k - 1].progress)
         /\ RatLeq(events[k - 1].progress, events[k].progress)
    /\ \E n \in DOMAIN events[k].message :
         /\ events[k].message[n] \in Presets
         /\ events[k + 1].pass \in DOMAIN presetChain
         /\ events[k].message[n] = presetChain[events[k + 1].pass]

\* The duration-based estimate after the first c chunks of a pass of total chunks.
ExpectedEta(c, total) ==
  IF c = 0 \/ c >= total THEN Absent
  ELSE EtaOf(SubSeq(chunkDurations, 1, c), total - c)

\* C19: in the events of the pass in progress, estimatedTimeRemaining is undefined as
\* long as no chunk has completed; the estimate reported on the completion of chunk c
\* of the pass is the average duration of the c completed chunks times the number of
\* chunks that remain, rounded up.
C19_EtaIsAverageDurationTimesRemaining ==
  \A k \in DOMAIN events :
    (events[k].pass = chainIdx /\ chainIdx > 0) =>
      /\ events[k].phase = "chunking" => events[k].estimatedTimeRemaining = Absent
      /\ (events[k].phase = "compressing" /\ k > 1
            /\ events[k - 1].phase = "compressing"
            /\ events[k - 1].currentChunk = events[k].currentChunk) =>
           events[k].estimatedTimeRemaining
             = ExpectedEta(events[k].currentChunk[1], events[k].totalChunks[1])

\* C20: a resolved job carries either the unmodified input, or the output of one
\* pass: all numChunks chunks, every page once and in order, compressed under the
\* preset reported as presetUsed, which is the preset of the last pass; never a
\* chunk of a pass that failed.
C20_NoPartialOrMixedResult ==
  (pc = "done" /\ result.state = "resolved") =>
    \/ /\ result.warning = FailureWarning
       /\ result.pdf.tag = "raw"
       /\ result.pdf.data = pdfBuffer.data
       /\ result.stats.chunksProcessed = 0
    \/ /\ result.warning # FailureWarning
       /\ result.pdf.tag \in {"merged", "compressed"}
       /\ result.pdf.data = [k \in 1..totalPages |-> k - 1]
       /\ result.stats.presetUsed = CurrentPreset
       /\ result.stats.chunksProcessed = numChunks
       /\ result.pdf.preset \in {"none", CurrentPreset}
       /\ numChunks > 0 => result.pdf.preset = CurrentPreset
       /\ \A k \in 1..(chainIdx - 1) : result.pdf.preset # presetChain[k]

\* The third pass succeeded after the first had compressed a chunk and failed.
C20_Witness ==
  /\ pc = "done"
  /\ result.state = "resolved"
  /\ result.warning # FailureWarning
  /\ chainIdx = 3
  /\ numChunks = 2
  /\ result.pdf.preset = "lossless"
  /\ \E w \in DOMAIN workers :
       /\ workers[w].kind = "chunk"
       /\ workers[w].preset = "max"
       /\ workers[w].promise = "resolved"

\* C21: when a pass succeeds, the result names the preset of that pass as
\* presetUsed, and it carries a warning exactly when that preset is not the
\* requested one; the warning then names both presets.
C21_PresetUsedAndWarning ==
  (pc = "done" /\ result.state = "resolved" /\ result.warning # FailureWarning) =>
    /\ result.stats.presetUsed = presetChain[chainIdx]
    /\ (result.warning # NoWarning) <=> (presetChain[chainIdx] # opts.preset)
    /\ result.warning # NoWarning =>
         result.warning = <<"Original preset", opts.preset, "failed, used",
                            presetChain[chainIdx]>>

\* The pass under 'balanced' succeeded for a job that asked for 'max'.
C21_Witness ==
  /\ pc = "done"
  /\ result.state = "resolved"
  /\ opts.preset = "max"
  /\ result.stats.presetUsed = "balanced"
  /\ result.warning # NoWarning
  /\ result.warning # FailureWarning

\* The substrings classifyError looks for.
ClassifierKeywords ==
  {"invalid pdf", "not a valid pdf", "out of memory", "memory", "heap", "wasm",
   "webassembly", "worker", "timeout", "timed out", "validation", "corrupt"}

\* Messages holding at most two of the substrings.
ClassifiedMessages ==
  {{}} \cup {{a, b} : a \in ClassifierKeywords, b \in ClassifierKeywords}

\* C24: isRecoverableError is true exactly for OUT_OF_MEMORY, TIMEOUT, WORKER_ERROR
\* and UNKNOWN and false exactly for INVALID_PDF, WASM_LOAD_FAILED and
\* VALIDATION_FAILED; classifyError gives every message one of these seven types
\* (compared over a table of messages when the job starts), so every error, the
\* one a pass failed with included, has one type and one verdict.
C24_RecoverabilityTable ==
  /\ \A t \in ErrorTypes :
       /\ isRecoverableError(t) \in BOOLEAN
       /\ isRecoverableError(t) <=> t \in {"OUT_OF_MEMORY", "TIMEOUT", "WORKER_ERROR", "UNKNOWN"}
       /\ ~isRecoverableError(t) <=> t \in {"INVALID_PDF", "WASM_LOAD_FAILED", "VALIDATION_FAILED"}
  /\ pc = "start" =>
       /\ \A message \in ClassifiedMessages : classifyError(message) \in ErrorTypes
       /\ \A t \in ErrorTypes :
            \E message \in ClassifiedMessages : classifyError(message) = t
  /\ failedPasses > 0 =>
       /\ classifyError(lastError.message) \in ErrorTypes
       /\ isRecoverableError(classifyError(lastError.message)) \in BOOLEAN
       /\ (pc # "done" /\ opts.onProgress) =>
            isRecoverableError(classifyError(lastError.message))

\* A pass failed for lack of memory; the handler classified the error and the job
\* went on to the next preset.
C24_Witness ==
  /\ failedPasses = 1
  /\ opts.onProgress
  /\ pc = "countPages"
  /\ chainIdx = 2
  /\ classifyError(lastError.message) = "OUT_OF_MEMORY"
  /\ isRecoverableError(classifyError(lastError.message))

\* C25: a document whose page count is 0 is refused: its pass neither goes on to
\* chunk compression or merging nor returns a successful result; the job fails
\* with an invalid-input error.
C25_NoPagesIsInvalidInput ==
  (docPages = 0 /\ chainIdx > 0) =>
    /\ pc \notin {"extractPages", "awaitChunk", "mergeMain", "awaitMerge"}
    /\ pc = "done" =>
         /\ result.state = "rejected" \/ result.warning = FailureWarning
         /\ classifyError(lastError.message) = "INVALID_PDF"

\* The chunk size the rule asks for when none is requested. For pages > 0 and
\* fileSizeBytes > 0, fileSizeBytes / pages exceeds 5 MiB exactly when
\* (fileSizeBytes - 1) \div pages is at least 5 MiB; fileSizeBytes / 0 is Infinity.
ExpectedChunkSize(pages, fileSizeBytes, mobile) ==
  LET large == IF pages = 0 THEN TRUE
               ELSE (fileSizeBytes - 1) \div pages >= 5 * 1024 * 1024
  IN IF large \/ mobile \/ pages > 500 THEN 5 ELSE 10

\* C27: the chunk size of a pass is the requested chunkSize when one is given;
\* otherwise it is 10, reduced to 5 exactly when the average page size exceeds
\* 5 MiB, or the device is mobile, or the document has more than 500 pages. The
\* rule is compared with calculateChunkSize over a table of inputs when the job
\* starts, and with the chunk size in use during every pass.
C27_ChunkSizeRule ==
  /\ pc = "start" =>
     \A pages \in {0, 1, 2, 3, 10, 400, 499, 500, 501, 1000} :
       \A fileSizeBytes \in {1, 1024, 5242879, 5242880, 5242881, 10485760, 10485761,
                              15728640, 15728641, 52428800, 52428801, 2097152000,
                              2097152001, 2147483647} :
         \A mobile \in BOOLEAN :
           calculateChunkSize(pages, fileSizeBytes, mobile)
             = ExpectedChunkSize(pages, fileSizeBytes, mobile)
  /\ pc \in {"extractPages", "awaitChunk", "mergeMain", "awaitMerge"} =>
       chunkSize = IF opts.chunkSize # 0 THEN opts.chunkSize
                   ELSE ExpectedChunkSize(docPages, pdfBuffer.byteLength, isMobile)

\* A pass on a mobile device with no chunk size requested works in chunks of 5;
\* the document is small.
C27_Witness ==
  /\ pc = "awaitChunk"
  /\ opts.chunkSize = 0
  /\ isMobile
  /\ docPages = 2
  /\ chunkSize = 5
  /\ numChunks = 1

\* What a job has decided and produced so far, apart from its workers.
JobOutcome == <<pc, presetChain, chainIdx, lastError, totalPages, chunkSize, numChunks, i,
                chunkPdf, compressedChunks, chunkStats, ranges, events, failedPasses,
                result>>

\* C28: the promise of a chunk settles once, with the outcome of the first
\* terminal event of its worker: resolved by a chunk-complete message, which adds
\* one chunk result to the pass, rejected by an error message, a worker error or
\* the timer, which fails the pass. An event that arrives for a chunk already
\* settled changes neither its promise nor anything the job has decided.
C28_FirstTerminalEventDecides ==
  [][\A w \in DOMAIN workers :
       workers[w].kind = "chunk" =>
         /\ workers[w].promise # "pending" =>
              /\ workers'[w].promise = workers[w].promise
              /\ workers'[w] # workers[w] => UNCHANGED JobOutcome
         /\ (workers[w].promise = "pending" /\ workers'[w].promise = "resolved") =>
              /\ Len(chunkStats') = Len(chunkStats) + 1
              /\ failedPasses' = failedPasses
              /\ ~workers'[w].alive
         /\ (workers[w].promise = "pending" /\ workers'[w].promise = "rejected") =>
              /\ failedPasses' = failedPasses + 1
              /\ chunkStats' \in {chunkStats, <<>>}
              /\ ~workers'[w].alive]_vars

\* The timer of a chunk fired after its chunk-complete message had resolved the
\* promise: the promise is still resolved and the job went on to succeed.
C28_Witness ==
  /\ pc = "done"
  /\ result.state = "resolved"
  /\ failedPasses = 0
  /\ \E w \in DOMAIN workers :
       /\ workers[w].kind = "chunk"
       /\ workers[w].promise = "resolved"
       /\ ~workers[w].timer
       /\ workers[w].terminateCalls = 2

\* The engine loads that have neither succeeded nor failed.
LoadsInFlight == {k \in DOMAIN loads : loads[k] \in {"fetching", "instantiating"}}

\* C22: while nobody calls unloadWASM, at most one engine load is in flight; every
\* caller that is waiting waits for that load, the one loadPromise points to; and
\* once a load has succeeded no call starts another: the load that succeeded is the
\* last one, and callers that arrive afterwards return at once.
C22_SingleEngineLoad ==
  /\ [](/\ Cardinality(LoadsInFlight) <= 1
        /\ isLoading <=> LoadsInFlight # {}
        /\ \A c \in DOMAIN callers :
             callers[c].status = "awaiting" =>
               /\ callers[c].load \in LoadsInFlight
               /\ callers[c].load = loadPromise
        /\ \A k \in DOMAIN loads : loads[k] = "resolved" => k = Len(loads))
  /\ [][(\E k \in DOMAIN loads : loads[k] = "resolved") =>
          /\ loads' = loads
          /\ \A c \in DOMAIN callers :
               callers'[c] # callers[c] => callers'[c] = Resumed("returned", NoPromise)]_vars

\* After a load that failed, compress() and another caller wait for the same
\* second load.
C22_Witness ==
  /\ loads = <<"rejected", "instantiating">>
  /\ callers[0] = AwaitingLoad(2)
  /\ callers[1] = AwaitingLoad(2)
  /\ callers[2] = Resumed("threw", 1)

\* The preset name the caller passed is none of the three presets.
InvalidPresetName == options.preset # Absent /\ options.preset[1] \notin Presets

\* C23: compress() fails with a TypeError whenever the input is not an ArrayBuffer
\* or the preset name is not lossless, balanced or max, whatever the other inputs
\* are, and it does so before the engine is asked for, before any progress event
\* and before any worker is created.
C23_InvalidInputIsTypeError ==
  (pc # "call" /\ (~IsArrayBuffer(pdfBuffer) \/ InvalidPresetName)) =>
    /\ pc = "done"
    /\ result.state = "rejected"
    /\ result.error.name = "TypeError"
    /\ callers[0] = Idle
    /\ events = <<>>
    /\ workers = <<>>

\* C26: when the engine load compress() waits for fails, compress() rejects with a
\* CompressionError that carries the requested preset, the byte length of the
\* input, phase 'chunking' and the loader's error as cause; no pass, worker or
\* fallback preset has been tried, with graceful degradation on or off.
C26_EngineLoadFailureRejects ==
  (callers[0].status = "threw") =>
    /\ pc = "done"
    /\ result.state = "rejected"
    /\ result.error.name = "CompressionError"
    /\ result.error.attemptedPreset
         = (IF options.preset \in {Absent, <<"">>} THEN "balanced" ELSE options.preset[1])
    /\ result.error.originalSize = pdfBuffer.byteLength
    /\ result.error.phase = "chunking"
    /\ result.error.hasCause
    /\ result.warning = NoWarning
    /\ presetChain = <<>>
    /\ chainIdx = 0
    /\ failedPasses = 0
    /\ workers = <<>>

\* The engine failed to load for a call that asked for 'max' and left graceful
\* degradation on.
C26_Witness ==
  /\ pc = "done"
  /\ callers[0].status = "threw"
  /\ options.preset = <<"max">>
  /\ options.gracefulDegradation = Absent
  /\ opts.gracefulDegradation
  /\ result.error.attemptedPreset = "max"
  /\ result.error.originalSize = 5

\* The positions of the terminal messages the worker script has posted.
TerminalMessages == {k \in DOMAIN posted : posted[k].type \in {"chunk-complete", "error"}}

\* C29: a progress message of the chunk's worker changes nothing in compressChunk
\* or the job: the promise stays as it was, the worker is not terminated, and
\* nothing the job has decided or produced changes; a chunk whose worker has sent
\* nothing but progress messages is still pending, with its worker alive.
C29_ProgressMessagesAreIgnored ==
  /\ [][(delivered' = delivered + 1 /\ posted[delivered'].type = "progress") =>
          UNCHANGED <<workers, JobOutcome, progress, chunkDurations, mergeReports,
                      jobInputs>>]_vars
  /\ []((/\ Live.timer
         /\ uncaught = 0
         /\ \A k \in 1..delivered : posted[k].type = "progress") =>
          (Live.promise = "pending" /\ Live.alive /\ pc = "awaitChunk"))

\* The handler has seen the progress messages 10, 30 and 100 of the second chunk
\* and still waits for the result.
C29_Witness ==
  /\ delivered = 3
  /\ \A k \in 1..3 : posted[k].type = "progress"
  /\ i = 1
  /\ Live.promise = "pending"
  /\ Live.alive
  /\ pc = "awaitChunk"

\* C30: for a compress-chunk request the worker script posts progress messages
\* and then exactly one terminal message, a chunk-complete message with the
\* chunkIndex of the request or an error message, and nothing after it.
C30_OneTerminalMessageLast ==
  /\ Cardinality(TerminalMessages) <= 1
  /\ \A k \in TerminalMessages :
       /\ k = Len(posted)
       /\ posted[k].type = "chunk-complete" => posted[k].chunkIndex = Live.chunkIndex
  /\ script = "done" => Cardinality(TerminalMessages) = 1

\* The bytes the chunks of the pass held when extractPages returned them.
RECURSIVE ExtractedSize(_)
ExtractedSize(rs) ==
  IF rs = <<>> THEN 0
  ELSE extractPages(docPages, Head(rs).startPage, Head(rs).endPage).byteLength
         + ExtractedSize(Tail(rs))

\* C31: on a successful pass stats.originalSize is positive and is the sum of the
\* sizes the chunk inputs had before they were handed to their workers, not a
\* length read from a buffer that was transferred.
C31_OriginalSizeBeforeTransfer ==
  (pc = "done" /\ result.state = "resolved" /\ result.warning # FailureWarning
     /\ numChunks > 0) =>
    /\ result.stats.originalSize > 0
    /\ result.stats.originalSize = ExtractedSize(ranges)

\* C32: every result the job resolves with, from a successful pass or as the
\* fallback, reports the byte length of the artifact it returns as compressedSize
\* and originalSize - compressedSize as bytesSaved.
C32_SizesAgreeWithArtifact ==
  (pc = "done" /\ result.state = "resolved") =>
    /\ result.stats.compressedSize = result.pdf.byteLength
    /\ result.stats.bytesSaved = result.stats.originalSize - result.stats.compressedSize

\* Two chunks of 3 bytes each merged into an artifact of 6 bytes.
C32_Witness ==
  /\ pc = "done"
  /\ result.state = "resolved"
  /\ result.warning = NoWarning
  /\ numChunks = 2
  /\ result.pdf.byteLength = 6
  /\ result.stats.compressedSize = 6

\* C33: whether a failed pass is followed by a pass under the next preset does not
\* depend on the onProgress callback.  Without a callback the loop goes on exactly
\* when the failed preset is not the last of the chain, whatever the error is, so
\* a decision that ignores the callback is that one in every run.
C33_DecisionIgnoresCallback ==
  [][failedPasses' = failedPasses + 1 =>
       ((pc' # "done") <=> (chainIdx < Len(presetChain)))]_vars

\* C34: a chunk worker is terminated exactly once: when its promise has settled
\* the later expiry of its timer terminates nothing.
C34_ChunkTerminatedOnce ==
  \A w \in DOMAIN workers :
    workers[w].kind = "chunk" =>
      /\ workers[w].terminateCalls <= 1
      /\ workers[w].promise # "pending" => workers[w].terminateCalls = 1

C35_LoaderFlagsConsistent ==
  /\ isReady => goInstance
  /\ isLoading => loadPromise # NoPromise

\* The loads that fail in the step.
FailingLoads == {k \in DOMAIN loads : loads[k] # "rejected" /\ loads'[k] = "rejected"}

\* The callers whose loadWASM call is made in the step.
CallingCallers == {c \in DOMAIN callers : callers[c] = Idle /\ callers'[c] # Idle}

\* C36: when a load fails, every caller awaiting it receives the failure and the
\* loader is left with isReady false, goInstance unset and isLoading false; no
\* caller stays suspended on a failed load, and a loadWASM call made once the load
\* has failed starts a new load: it neither returns at once as if loaded nor is
\* handed the failed load.
C36_FailedLoadIsNotCached ==
  /\ [][\A k \in FailingLoads :
           /\ \A c \in DOMAIN callers :
                callers[c] = AwaitingLoad(k) => callers'[c] = Resumed("threw", k)
           /\ ~isReady' /\ ~goInstance' /\ ~isLoading']_vars
  /\ [](\A c \in DOMAIN callers :
          callers[c].status = "awaiting" => loads[callers[c].load] # "rejected")
  /\ [][\A c \in CallingCallers :
           (loads # <<>> /\ loads[Len(loads)] = "rejected") =>
             /\ loads' = Append(loads, "fetching")
             /\ callers'[c] = AwaitingLoad(Len(loads) + 1)
             /\ isLoading' /\ loadPromise' = Len(loads) + 1]_vars

\* The first load failed under compress() and another caller, both of which got
\* the failure; the call made afterwards is waiting for a second load.
C36_Witness ==
  /\ loads = <<"rejected", "fetching">>
  /\ callers[0] = Resumed("threw", 1)
  /\ callers[1] = Resumed("threw", 1)
  /\ callers[2] = AwaitingLoad(2)
  /\ isLoading /\ ~isReady /\ ~goInstance

\* C39: within a pass 0 <= completedChunks <= totalChunks in every state, the
\* count is the number of chunks of the pass that have completed and goes up by
\* exactly one in the step that completes a chunk and in no other, and a pass
\* that is started (the first or a retry) starts from a tracker that counts 0.
C39_CompletedChunksCount ==
  /\ [](/\ 0 <= progress.completedChunks
        /\ progress.completedChunks <= progress.totalChunks
        /\ progress.completedChunks = Len(compressedChunks)
        /\ progress.completedChunks = Len(progress.chunkTimes))
  /\ [][IF progress'.pass # progress.pass
        THEN progress'.completedChunks = 0 /\ progress'.chunkTimes = <<>>
        ELSE IF Len(compressedChunks') = Len(compressedChunks) + 1
        THEN progress'.completedChunks = progress.completedChunks + 1
        ELSE progress'.completedChunks = progress.completedChunks]_vars

\* The second pass has completed one of its two chunks after the first pass had
\* completed one and failed on the other: three chunk workers settled, two of
\* them with a result, and the count is 1.
C39_Witness ==
  /\ failedPasses = 1
  /\ progress.pass = 2
  /\ progress.totalChunks = 2
  /\ progress.completedChunks = 1
  /\ Cardinality({w \in DOMAIN workers : workers[w].kind = "chunk"
                                           /\ workers[w].promise = "resolved"}) = 2
  /\ Cardinality({w \in DOMAIN workers : workers[w].promise = "rejected"}) = 1

\* The degradation order, most aggressive first, and its part from a preset on.
DegradationOrder == <<"max", "balanced", "lossless">>

ChainFrom(preset) ==
  LET first == CHOOSE k \in 1..3 : DegradationOrder[k] = preset
  IN SubSeq(DegradationOrder, first, 3)

\* The loop is at its pass number n without an outcome.
InPass(n) == chainIdx = n /\ pc # "done"

\* C38: the passes started so far are the first chainIdx presets of the
\* degradation chain from the requested preset (of the requested preset alone
\* when gracefulDegradation is false), the chain names no preset twice and at
\* most three, a step starts at most the next pass of the chain, a job without
\* gracefulDegradation that entered the loop ends after exactly one pass, every
\* worker runs under the preset of a pass that was started; and, unless some
\* pass never settles, the loop reaches a terminal outcome.
C38_PassesArePrefixOfChain ==
  /\ [](/\ presetChain \in {<<>>, IF opts.gracefulDegradation THEN ChainFrom(opts.preset)
                                   ELSE <<opts.preset>>}
        /\ Len(presetChain) <= 3
        /\ \A a, b \in DOMAIN presetChain : presetChain[a] = presetChain[b] => a = b
        /\ chainIdx \in 0..Len(presetChain)
        /\ failedPasses <= chainIdx
        /\ \A w \in DOMAIN workers :
             \E n \in 1..chainIdx : workers[w].preset = presetChain[n]
        /\ (pc = "done" /\ presetChain # <<>> /\ ~opts.gracefulDegradation) => chainIdx = 1)
  /\ [][/\ chainIdx' \in {chainIdx, chainIdx + 1}
        /\ chainIdx' = chainIdx + 1 => pc' = "countPages" /\ pc # "done"
        /\ (presetChain # <<>>) => presetChain' = presetChain]_vars
  /\ \/ <>(pc = "done")
     \/ \E n \in 1..3 : <>[]InPass(n)

\* A job that asked for max ended in its third pass, under lossless, after the
\* passes under max and balanced had failed.
C38_Witness ==
  /\ pc = "done"
  /\ opts.preset = "max"
  /\ presetChain = <<"max", "balanced", "lossless">>
  /\ chainIdx = 3
  /\ failedPasses = 2
  /\ result.state = "resolved"
  /\ result.stats.presetUsed = "lossless"

====
